---- MODULE Spec2Model ----
(***************************************************************************)
(* A model of the perplexity-clone retrieval and agent pipeline:           *)
(* the client search provider (webSearch), the multi-hop engine            *)
(* (executeMultiHopSearch), the agent orchestrator (agentSearch), the      *)
(* query analyzer (analyzeQuery), the streaming generation call and the    *)
(* server-side re-ranker (rerankResults).                                  *)
(*                                                                         *)
(* JavaScript strings are sequences of UTF-16 code units, each a TLA+      *)
(* string of one character; "HS" and "LS" stand for a high and a low       *)
(* surrogate code unit.                                                    *)
(***************************************************************************)
EXTENDS Integers, Sequences, FiniteSets, TLC

VARIABLES
    env,        \* the client build's direct-API key: "brave", "serp" or "none"
    query,      \* the user's query
    anPc,       \* analyzeQuery: control position
    anReply,    \* analyzeQuery: what the generation service answers
    analysis,   \* the QueryAnalysis handed to executeMultiHopSearch / made by analyzeQuery
    agPc,       \* agentSearch: control position
    mhPc,       \* executeMultiHopSearch: control position
    tasks,      \* executeMultiHopSearch: const tasks
    i,          \* executeMultiHopSearch: loop index (0-based)
    searchQuery,    \* executeMultiHopSearch: let searchQuery (or simplifiedQuery in flight)
    firstResp,  \* executeMultiHopSearch: searchResponse of the current task
    allResults, \* executeMultiHopSearch: const allResults
    executedTasks,  \* executeMultiHopSearch: const executedTasks
    taskResults,    \* executeMultiHopSearch: const taskResults (Map id -> results)
    hasMockSearch,  \* executeMultiHopSearch: let hasMockSearch
    mhResult,   \* the MultiHopResult the call resolved with, or NoValue
    wsPc,       \* webSearch: control position
    wsQuery,    \* webSearch: its argument
    wsResp,     \* webSearch: the SearchResponse it resolved with, or NoValue
    calls,      \* number of webSearch calls made so far
    mockSeen,   \* history: some webSearch call resolved with isMockSearch set
    genPc,      \* generateStreamingResponse: control position
    fullText,   \* generateStreamingResponse: let fullText
    events,     \* the callbacks invoked, the requests issued and the errors raised, in order
    rrPc,       \* rerankResults: control position
    rrIn,       \* rerankResults: the results argument
    rrQuery,    \* rerankResults: the query argument
    rrOut,      \* rerankResults: the returned list, or NoValue
    qcPc,       \* checkResponseQuality: control position
    qcText,     \* checkResponseQuality: the responseText argument
    qcSources,  \* checkResponseQuality: the sources argument
    qcOut       \* checkResponseQuality: the returned QualityCheckResult, or NoValue

VARIABLES
    apPc,       \* App: position of handleSearch and of its onComplete callback
    apRun,      \* App: number of queries submitted so far
    apSources,  \* App: the React state `sources` (const [sources, setSources])
    apClosure,  \* App: the `sources` binding of the render whose handleSearch runs
    apDelivered,    \* history: the list onSourcesUpdate delivered in this run
    apText,     \* App: the fullText handed to onComplete
    apPosts,    \* the bodies posted to /api/quality/check, in order
    qualityWarning, \* App: the React state `qualityWarning`
    lgPc,       \* a caller of Logger.getEvents: control position
    lgEvents,   \* Logger: private events
    lgLogged,   \* history: number of Logger.log calls made
    lgView,     \* the array getEvents returned to its caller
    psPc,       \* performSearch: control position
    psQuery,    \* performSearch: its argument
    psKeys,     \* which of BRAVE_SEARCH_KEY and SERPAPI_KEY the server has
    psTried,    \* history: the providers performSearch has called, in order
    psOut       \* performSearch: the SearchResponse or the error it settled with

vars == <<env, query, anPc, anReply, analysis, agPc, mhPc, tasks, i, searchQuery, firstResp,
          allResults, executedTasks, taskResults, hasMockSearch, mhResult,
          wsPc, wsQuery, wsResp, calls, mockSeen, genPc, fullText, events,
          rrPc, rrIn, rrQuery, rrOut, qcPc, qcText, qcSources, qcOut,
          apPc, apRun, apSources, apClosure, apDelivered, apText, apPosts,
          qualityWarning, lgPc, lgEvents, lgLogged, lgView,
          psPc, psQuery, psKeys, psTried, psOut>>

mhVars == <<mhPc, tasks, i, searchQuery, firstResp, allResults, executedTasks,
            taskResults, hasMockSearch, mhResult>>
wsVars == <<wsPc, wsQuery, wsResp, calls, mockSeen>>
genVars == <<genPc, fullText>>
rrVars == <<rrPc, rrIn, rrQuery, rrOut>>
qcVars == <<qcPc, qcText, qcSources, qcOut>>
apVars == <<apPc, apRun, apSources, apClosure, apDelivered, apText, apPosts,
            qualityWarning>>
lgVars == <<lgPc, lgEvents, lgLogged, lgView>>
psVars == <<psPc, psQuery, psKeys, psTried, psOut>>

\* the variables of the models that follow the quality check
xtVars == <<apVars, lgVars, psVars>>

NoValue == "undefined"

\* the App component is not mounted
IdleAp ==
    /\ apPc = "none"
    /\ apRun = 0
    /\ apSources = <<>>
    /\ apClosure = <<>>
    /\ apDelivered = <<>>
    /\ apText = <<>>
    /\ apPosts = <<>>
    /\ qualityWarning = "null"

\* no array of the logger is held by a caller
NoView == [ref |-> "none", items |-> <<>>]

\* logger.ts, lines 7 and 76: the logger as constructed
IdleLg ==
    /\ lgPc = "idle"
    /\ lgEvents = <<>>
    /\ lgLogged = 0
    /\ lgView = NoView

\* performSearch has not been called
IdlePs ==
    /\ psPc = "none"
    /\ psQuery = <<>>
    /\ psKeys = [brave |-> FALSE, serp |-> FALSE]
    /\ psTried = <<>>
    /\ psOut = NoValue

IdleXt == IdleAp /\ IdleLg /\ IdlePs

\* the variables of the pipeline and of the functions modelled on their own
coreVars == <<env, query, anPc, anReply, analysis, agPc, mhVars, wsVars, genVars,
              events, rrVars, qcVars>>

\* nothing of the pipeline has been called
IdleCore ==
    /\ env = "none"
    /\ query = <<>>
    /\ anPc = "none"
    /\ anReply = NoValue
    /\ analysis = NoValue
    /\ agPc = "none"
    /\ mhPc = "idle"
    /\ tasks = <<>>
    /\ i = 0
    /\ searchQuery = <<>>
    /\ firstResp = NoValue
    /\ allResults = <<>>
    /\ executedTasks = <<>>
    /\ taskResults = <<>>
    /\ hasMockSearch = "false"
    /\ mhResult = NoValue
    /\ wsPc = "idle"
    /\ wsQuery = <<>>
    /\ wsResp = NoValue
    /\ calls = 0
    /\ mockSeen = "false"
    /\ genPc = "none"
    /\ fullText = <<>>
    /\ events = <<>>
    /\ rrPc = "none"
    /\ rrIn = <<>>
    /\ rrQuery = <<>>
    /\ rrOut = NoValue
    /\ qcPc = "none"
    /\ qcText = <<>>
    /\ qcSources = <<>>
    /\ qcOut = NoValue

----------------------------------------------------------------------------
(* Strings *)

HS == "HS"
LS == "LS"

Min(a, b) == IF a < b THEN a ELSE b
Max(a, b) == IF a < b THEN b ELSE a

Rep(c, n) == [k \in 1..n |-> c]

IsSpace(c) == c = " "

\* String.prototype.substring(0, n)
Substring0(s, n) == SubSeq(s, 1, Min(n, Len(s)))

\* String.prototype.lastIndexOf(c): 0-based, -1 when absent
LastIndexOf(s, c) ==
    LET hits == {k \in 1..Len(s) : s[k] = c}
    IN  IF hits = {} THEN -1
        ELSE (CHOOSE k \in hits : \A m \in hits : m <= k) - 1

\* String.prototype.indexOf(c): 0-based, -1 when absent
IndexOf(s, c) ==
    LET hits == {k \in 1..Len(s) : s[k] = c}
    IN  IF hits = {} THEN -1
        ELSE (CHOOSE k \in hits : \A m \in hits : k <= m) - 1

\* s.split(c)[0]
SplitFirst(s, c) ==
    IF IndexOf(s, c) = -1 THEN s ELSE SubSeq(s, 1, IndexOf(s, c))

\* String.prototype.trim()
Trim(s) ==
    LET keep == {k \in 1..Len(s) : ~IsSpace(s[k])}
    IN  IF keep = {} THEN <<>>
        ELSE SubSeq(s, CHOOSE k \in keep : \A m \in keep : k <= m,
                       CHOOSE k \in keep : \A m \in keep : m <= k)

\* the maximal runs of non-space code units of s, in order
Words(s) ==
    LET starts == {k \in 1..Len(s) : ~IsSpace(s[k]) /\ (k = 1 \/ IsSpace(s[k - 1]))}
        ends == {k \in 1..Len(s) : ~IsSpace(s[k]) /\ (k = Len(s) \/ IsSpace(s[k + 1]))}
        Nth(S, j) == CHOOSE k \in S : Cardinality({m \in S : m <= k}) = j
    IN  [j \in 1..Cardinality(starts) |-> SubSeq(s, Nth(starts, j), Nth(ends, j))]

\* s.split(/\s+/): the words, with an empty piece before a leading and after a
\* trailing run of spaces
SplitWs(s) ==
    IF s = <<>> THEN << <<>> >>
    ELSE (IF IsSpace(s[1]) THEN << <<>> >> ELSE <<>>)
         \o Words(s)
         \o (IF IsSpace(s[Len(s)]) THEN << <<>> >> ELSE <<>>)

\* Array.prototype.join
RECURSIVE Join(_, _)
Join(words, sep) ==
    IF words = <<>> THEN <<>>
    ELSE IF Len(words) = 1 THEN words[1]
         ELSE words[1] \o sep \o Join(Tail(words), sep)

\* String.prototype.includes
Includes(s, p) ==
    \E k \in 0..(Len(s) - Len(p)) : SubSeq(s, k + 1, k + Len(p)) = p

UpperCase == <<"A","B","C","D","E","F","G","H","I","J","K","L","M",
               "N","O","P","Q","R","S","T","U","V","W","X","Y","Z">>
LowerCase == <<"a","b","c","d","e","f","g","h","i","j","k","l","m",
               "n","o","p","q","r","s","t","u","v","w","x","y","z">>

LowerChar(c) ==
    IF \E k \in 1..26 : UpperCase[k] = c
    THEN LowerCase[CHOOSE k \in 1..26 : UpperCase[k] = c]
    ELSE c

\* the function f on 1..n as a tuple
Tuple(f, n) == SubSeq(f, 1, n)

\* String.prototype.toLowerCase
ToLower(s) == Tuple([k \in 1..Len(s) |-> LowerChar(s[k])], Len(s))

\* s.replace(/\s+/g, sep)
ReplaceWs(s, sep) == Join(SplitWs(s), sep)

\* words.slice(0, n)
Slice0(words, n) == SubSeq(words, 1, Min(n, Len(words)))

\* the concatenation of a list of lists
RECURSIVE Concat(_)
Concat(lists) ==
    IF Len(lists) = 0 THEN <<>>
    ELSE IF Len(lists) = 1 THEN lists[1]
    ELSE LET half == Len(lists) \div 2
         IN  Concat(SubSeq(lists, 1, half)) \o Concat(SubSeq(lists, half + 1, Len(lists)))

Digits == <<"0","1","2","3","4","5","6","7","8","9">>

\* \d without the unicode flag: an ASCII decimal digit
IsDigit(c) == \E d \in 1..10 : Digits[d] = c

IsLetter(c) == \E k \in 1..26 : UpperCase[k] = c \/ LowerCase[k] = c

\* the characters encodeURIComponent leaves alone
Unreserved(c) ==
    IsLetter(c) \/ IsDigit(c) \/ c \in {"-", "_", ".", "!", "~", "*", "'", "(", ")"}

\* the UTF-8 octets of a character, percent-encoded; a surrogate pair is taken
\* to be U+1F600, and the only other reserved characters of the queries used
\* here are the space, "?", ":" and "%"
EncodeChar(c) ==
    IF Unreserved(c) THEN <<c>>
    ELSE IF c = HS THEN <<"%","F","0","%","9","F">>
    ELSE IF c = LS THEN <<"%","9","8","%","8","0">>
    ELSE IF c = " " THEN <<"%","2","0">>
    ELSE IF c = "?" THEN <<"%","3","F">>
    ELSE IF c = ":" THEN <<"%","3","A">>
    ELSE <<"%","2","5">>

\* encodeURIComponent of a string without lone surrogate
encodeURIComponent(s) == Concat(Tuple([k \in 1..Len(s) |-> EncodeChar(s[k])], Len(s)))

\* no lone surrogate: every HS is followed by an LS and every LS follows an HS
IsWellFormed(s) ==
    \A k \in 1..Len(s) :
        /\ s[k] = HS => (k < Len(s) /\ s[k + 1] = LS)
        /\ s[k] = LS => (k > 1 /\ s[k - 1] = HS)

----------------------------------------------------------------------------
(* Inputs: the user queries and the search queries a planner may emit *)

\* "Compare React vs Vue"
QCompare == <<"C","o","m","p","a","r","e"," ","R","e","a","c","t"," ","v","s"," ","V","u","e">>
\* "What is Rust?"
QWhat == <<"W","h","a","t"," ","i","s"," ","R","u","s","t","?">>
\* "Vue " followed by a lone high surrogate (half of a pasted emoji)
QLone == <<"V","u","e"," ",HS>>

Queries == {QCompare, QWhat, QLone}

\* "React hooks"
TShort == <<"R","e","a","c","t"," ","h","o","o","k","s">>
\* "history of the React library"
TMedium == <<"h","i","s","t","o","r","y"," ","o","f"," ","t","h","e"," ","R","e","a","c","t"," ","l","i","b","r","a","r","y">>
\* "find " + a 94-character token + one emoji (a surrogate pair): 101 code units,
\* the pair sits at 0-based indices 99 and 100
TLongEmoji == <<"f","i","n","d"," ">> \o Rep("x", 94) \o <<HS, LS>>
\* "abc " 26 times: 104 code units, spaces past index 50
TLongWords == [k \in 1..104 |-> IF k % 4 = 0 THEN " " ELSE <<"a","b","c">>[k % 4]]

TaskQueries == {TShort, TMedium, TLongEmoji, TLongWords}

----------------------------------------------------------------------------
(* Bounds and program constants *)

\* the most results one backend reply carries
MaxProviderResults == 11
\* the longest plan the planner returns
MaxTasks == 2

DirectLimit == 5
MockBase == 3
QueryLimit == 100
MinCut == 50
RetryMinLen == 20
KeyTerms == 4
MinWordLen == 2
FinalLimit == 10

----------------------------------------------------------------------------
(* JavaScript values *)

\* JavaScript values are written as strings: "true" and "false" are the
\* booleans, "undefined" an absent field, "" the empty string, anything else a
\* non-empty string

\* a value used as a condition
Truthy(v) == v \notin {"false", "undefined", ""}

\* v || d
Or(v, d) == IF Truthy(v) THEN v ELSE d

\* v || false
OrFalse(v) == Or(v, "false")

\* the results of one search call: <<call number, position>>
MkResults(call, n) == [k \in 1..n |-> <<call, k>>]

----------------------------------------------------------------------------
(* searchService.ts (client): webSearch and its fallbacks *)

TechWords == {<<"p","r","o","g","r","a","m","m","i","n","g">>, <<"c","o","d","e">>,
              <<"j","a","v","a","s","c","r","i","p","t">>, <<"r","e","a","c","t">>,
              <<"t","y","p","e","s","c","r","i","p","t">>}
ScienceWords == {<<"q","u","a","n","t","u","m">>, <<"p","h","y","s","i","c","s">>,
                 <<"s","c","i","e","n","c","e">>, <<"c","o","m","p","u","t","e","r">>}

\* mockSearch(query): the number of results, or -1 when encodeURIComponent throws
\* URIError on a lone surrogate
mockSearch(q) ==
    IF ~IsWellFormed(q) THEN -1
    ELSE Min(DirectLimit,
             MockBase
             + (IF \E w \in TechWords : Includes(ToLower(q), w) THEN 1 ELSE 0)
             + (IF \E w \in ScienceWords : Includes(ToLower(q), w) THEN 1 ELSE 0))

\* the entries mockSearch(query) builds, without their favicon
Mock1(q) ==
    [id |-> "mock-1",
     title |-> q \o <<" ","-"," ","W","i","k","i","p","e","d","i","a">>,
     url |-> <<"h","t","t","p","s",":","/","/","e","n",".","w","i","k","i","p","e","d","i",
              "a",".","o","r","g","/","w","i","k","i","/">>
             \o encodeURIComponent(ReplaceWs(q, <<"_">>)),
     snippet |-> <<"A"," ","c","o","m","p","r","e","h","e","n","s","i","v","e"," ","o","v","e",
              "r","v","i","e","w"," ","o","f"," ">>
                 \o q \o
            <<"."," ","T","h","i","s"," ","a","r","t","i","c","l","e"," ","c","o","v","e",
              "r","s"," ","t","h","e"," ","k","e","y"," ","c","o","n","c","e","p","t","s",
              ","," ","h","i","s","t","o","r","y",","," ","a","n","d"," ","m","o","d","e",
              "r","n"," ","a","p","p","l","i","c","a","t","i","o","n","s",".",".",".">>,
     domain |-> <<"e","n",".","w","i","k","i","p","e","d","i","a",".","o","r","g">>]

Mock2(q) ==
    [id |-> "mock-2",
     title |-> <<"U","n","d","e","r","s","t","a","n","d","i","n","g"," ">> \o q
               \o <<" ","|"," ","A"," ","C","o","m","p","l","e","t","e"," ","G","u","i","d",
              "e">>,
     url |-> <<"h","t","t","p","s",":","/","/","w","w","w",".","e","x","a","m","p","l","e",
              ".","c","o","m","/","g","u","i","d","e","/">>
             \o encodeURIComponent(ReplaceWs(ToLower(q), <<"-">>)),
     snippet |-> <<"L","e","a","r","n"," ","e","v","e","r","y","t","h","i","n","g"," ","y","o",
              "u"," ","n","e","e","d"," ","t","o"," ","k","n","o","w"," ","a","b","o","u",
              "t"," ">>
                 \o q \o
            <<"."," ","O","u","r"," ","c","o","m","p","r","e","h","e","n","s","i","v","e",
              " ","g","u","i","d","e"," ","c","o","v","e","r","s"," ","f","u","n","d","a",
              "m","e","n","t","a","l","s"," ","t","o"," ","a","d","v","a","n","c","e","d",
              " ","t","o","p","i","c","s",".",".",".">>,
     domain |-> <<"e","x","a","m","p","l","e",".","c","o","m">>]

Mock3(q) ==
    [id |-> "mock-3",
     title |-> q \o <<" ","E","x","p","l","a","i","n","e","d"," ","S","i","m","p","l","y"," ","-",
              " ","M","e","d","i","u","m">>,
     url |-> <<"h","t","t","p","s",":","/","/","m","e","d","i","u","m",".","c","o","m","/",
              "t","o","p","i","c","/">>
             \o encodeURIComponent(ReplaceWs(ToLower(q), <<"-">>)),
     snippet |-> <<"B","r","e","a","k","i","n","g"," ","d","o","w","n"," ">> \o q \o
            <<" ","i","n","t","o"," ","s","i","m","p","l","e",","," ","u","n","d","e","r",
              "s","t","a","n","d","a","b","l","e"," ","c","o","n","c","e","p","t","s",".",
              " ","P","e","r","f","e","c","t"," ","f","o","r"," ","b","e","g","i","n","n",
              "e","r","s"," ","l","o","o","k","i","n","g"," ","t","o"," ","u","n","d","e",
              "r","s","t","a","n","d"," ","t","h","e"," ","b","a","s","i","c","s",".",".",
              ".">>,
     domain |-> <<"m","e","d","i","u","m",".","c","o","m">>]

Mock4(q) ==
    [id |-> "mock-4",
     title |-> q \o <<" ","-"," ","S","t","a","c","k"," ","O","v","e","r","f","l","o","w">>,
     url |-> <<"h","t","t","p","s",":","/","/","s","t","a","c","k","o","v","e","r","f","l",
              "o","w",".","c","o","m","/","q","u","e","s","t","i","o","n","s","/","t","a",
              "g","g","e","d","/">>
             \o encodeURIComponent(ReplaceWs(ToLower(q), <<"-">>)),
     snippet |-> <<"C","o","m","m","u","n","i","t","y"," ","d","i","s","c","u","s","s","i","o",
              "n","s"," ","a","n","d"," ","s","o","l","u","t","i","o","n","s"," ","r","e",
              "l","a","t","e","d"," ","t","o"," ">>
                 \o q \o
            <<"."," ","F","i","n","d"," ","a","n","s","w","e","r","s"," ","f","r","o","m",
              " ","e","x","p","e","r","i","e","n","c","e","d"," ","d","e","v","e","l","o",
              "p","e","r","s",".",".",".">>,
     domain |-> <<"s","t","a","c","k","o","v","e","r","f","l","o","w",".","c","o","m">>]

Mock5(q) ==
    [id |-> "mock-5",
     title |-> q \o <<" ","R","e","s","e","a","r","c","h"," ","-"," ","N","a","t","u","r","e">>,
     url |-> <<"h","t","t","p","s",":","/","/","w","w","w",".","n","a","t","u","r","e",".",
              "c","o","m","/","s","e","a","r","c","h","?","q","=">>
             \o encodeURIComponent(q),
     snippet |-> <<"L","a","t","e","s","t"," ","r","e","s","e","a","r","c","h"," ","a","n","d",
              " ","s","c","i","e","n","t","i","f","i","c"," ","d","i","s","c","o","v","e",
              "r","i","e","s"," ","a","b","o","u","t"," ">>
                 \o q \o
            <<"."," ","P","e","e","r","-","r","e","v","i","e","w","e","d"," ","a","r","t",
              "i","c","l","e","s"," ","a","n","d"," ","p","u","b","l","i","c","a","t","i",
              "o","n","s",".",".",".">>,
     domain |-> <<"n","a","t","u","r","e",".","c","o","m">>]

\* mockSearch(query).results for a query without lone surrogate
mockResults(q) ==
    Slice0(<<Mock1(q), Mock2(q), Mock3(q)>>
           \o (IF \E w \in TechWords : Includes(ToLower(q), w)
               THEN <<Mock4(q)>> ELSE <<>>)
           \o (IF \E w \in ScienceWords : Includes(ToLower(q), w)
               THEN <<Mock5(q)>> ELSE <<>>),
           DirectLimit)

\* the results of call number `call` when they are the n entries of mockSearch
MockResults(call, n) == [k \in 1..n |-> <<call, k, "mock">>]

\* the replies of POST /api/search: <<number of results, isMockSearch>>
BackendReplies == {<<0, "false">>, <<0, "true">>, <<1, "true">>,
                   <<MaxProviderResults, "false">>}

\* the result counts of a direct Brave or SerpAPI reply, after slice(0, 5)
DirectReplies == {0, DirectLimit}

\* an error thrown by a stage, as the event list records it
Raised(stage) == [type |-> "raised", stage |-> stage]

\* a call of webSearch(q) up to its first await; ev is the event list so far
WebSearchCall(q, step, ev) ==
    /\ wsPc' = "backend"
    /\ wsQuery' = q
    /\ wsResp' = NoValue
    /\ calls' = calls + 1
    /\ UNCHANGED mockSeen
    /\ events' = Append(ev, [type |-> "request", call |-> calls + 1, query |-> q,
                              step |-> step])

\* the fallback to mockSearch(query) inside webSearch, searchWithBrave and
\* searchWithSerpAPI
MockFallback ==
    IF mockSearch(wsQuery) = -1
    THEN /\ wsPc' = "rejected"
         /\ wsResp' = NoValue
         /\ events' = Append(events, Raised("search"))
    ELSE /\ wsPc' = "resolved"
         /\ wsResp' = [results |-> MockResults(calls, mockSearch(wsQuery)),
                       isMockSearch |-> NoValue]
         /\ UNCHANGED events

\* the backend answers 200 with a SearchResponse
WsBackendOk ==
    /\ wsPc = "backend"
    /\ \E r \in BackendReplies :
        /\ wsPc' = "resolved"
        /\ wsResp' = [results |-> MkResults(calls, r[1]), isMockSearch |-> r[2]]
        /\ mockSeen' = IF Truthy(r[2]) THEN "true" ELSE mockSeen
    /\ UNCHANGED <<env, query, anPc, anReply, analysis, agPc, mhVars, wsQuery, calls,
                   genVars, events, rrVars, qcVars, xtVars>>

\* the backend is unreachable or answers an error: the catch block
WsBackendFails ==
    /\ wsPc = "backend"
    /\ IF env \in {"brave", "serp"}
       THEN wsPc' = "direct" /\ wsResp' = NoValue /\ UNCHANGED events
       ELSE MockFallback
    /\ UNCHANGED <<env, query, anPc, anReply, analysis, agPc, mhVars, wsQuery, calls,
                   mockSeen, genVars, rrVars, qcVars, xtVars>>

\* searchWithBrave / searchWithSerpAPI get a reply
WsDirectOk ==
    /\ wsPc = "direct"
    /\ \E n \in DirectReplies :
        /\ wsPc' = "resolved"
        /\ wsResp' = [results |-> MkResults(calls, n), isMockSearch |-> NoValue]
    /\ UNCHANGED <<env, query, anPc, anReply, analysis, agPc, mhVars, wsQuery, calls,
                   mockSeen, genVars, events, rrVars, qcVars, xtVars>>

\* searchWithBrave / searchWithSerpAPI fail: their catch returns mockSearch(query)
WsDirectFails ==
    /\ wsPc = "direct"
    /\ MockFallback
    /\ UNCHANGED <<env, query, anPc, anReply, analysis, agPc, mhVars, wsQuery, calls,
                   mockSeen, genVars, rrVars, qcVars, xtVars>>

webSearch == WsBackendOk \/ WsBackendFails \/ WsDirectOk \/ WsDirectFails

WsSettled == wsPc \in {"resolved", "rejected"}

----------------------------------------------------------------------------
(* taskPlanner.ts: planTasks *)

\* the search queries of a plan, by position: every query of TaskQueries occurs
\* at every position
PlanQueries == <<TMedium, TLongEmoji, TShort, TLongWords>>

\* dependsOn by position: the first task names the id after its own (a later
\* task, or an id no task has), the second the first task and itself, the
\* third itself
DependsOnAt(k) ==
    IF k = 1 THEN {1} ELSE IF k = 2 THEN {0, 1} ELSE IF k = 3 THEN {2} ELSE {}

PlanOf(n, r) ==
    [k \in 1..n |->
        [id |-> k - 1,
         searchQuery |-> PlanQueries[((k + r) % Len(PlanQueries)) + 1],
         dependsOn |-> DependsOnAt(k)]]

\* the task lists planTasks may resolve with: ids task_<index>, unique in a plan
planTasks == {PlanOf(n, r) : n \in 0..MaxTasks, r \in 0..(Len(PlanQueries) - 1)}

----------------------------------------------------------------------------
(* multiHopSearch.ts: executeMultiHopSearch *)

\* query.split(':')[0].split('?')[0].trim()
SimplifySimple(q) == Trim(SplitFirst(SplitFirst(q, ":"), "?"))

\* the bounded search query of a task
BoundQuery(q) ==
    IF Len(q) > QueryLimit
    THEN LET truncated == Substring0(q, QueryLimit)
             lastSpace == LastIndexOf(truncated, " ")
         IN  IF lastSpace > MinCut THEN Substring0(truncated, lastSpace)
             ELSE truncated
    ELSE q

LongEnough(w) == Len(w) > MinWordLen

\* searchQuery.split(/\s+/).filter(w => w.length > 2).slice(0, 4).join(' ')
SimplifyHop(q) ==
    LET words == SelectSeq(SplitWs(q), LongEnough)
    IN  Join(SubSeq(words, 1, Min(KeyTerms, Len(words))), <<" ">>)

\* allResults.slice(-10)
LastN(s, n) == SubSeq(s, Max(1, Len(s) - n + 1), Len(s))

\* a faulty variant: the plan always names the original query
SimpleReturnOriginal(results, sq, mock) ==
    [finalResults |-> results,
     allResults |-> results,
     executionPlan |-> <<[id |-> 0, searchQuery |-> query, dependsOn |-> {}]>>,
     analysis |-> [needsMultiStep |-> "false", complexity |-> analysis.complexity],
     hasMockSearch |-> mock]

\* lines 651-665 and 669-683: the result of the simple route
SimpleReturn(results, sq, mock) ==
    [finalResults |-> results,
     allResults |-> results,
     executionPlan |-> <<[id |-> 0, searchQuery |-> sq, dependsOn |-> {}]>>,
     analysis |-> [needsMultiStep |-> "false", complexity |-> analysis.complexity],
     hasMockSearch |-> mock]

ComplexReturn ==
    [finalResults |-> IF Len(allResults) > 0 THEN LastN(allResults, FinalLimit)
                      ELSE <<>>,
     allResults |-> allResults,
     executionPlan |-> executedTasks,
     analysis |-> [needsMultiStep |-> "true", complexity |-> analysis.complexity],
     hasMockSearch |-> hasMockSearch]

\* a faulty variant: the step is declared complete before its results are
\* reported
StepCompleteFirst(step, total, task, results) ==
    << [type |-> "onProgress", step |-> step, total |-> total],
       [type |-> "onToolCall", step |-> step, total |-> total,
        query |-> task.searchQuery],
       [type |-> "onStepComplete", step |-> step],
       [type |-> "onStepResults", step |-> step, results |-> results] >>

\* the progress callback agentSearch passes to executeMultiHopSearch
AgentStepEvents(step, total, task, results) ==
    << [type |-> "onProgress", step |-> step, total |-> total],
       [type |-> "onToolCall", step |-> step, total |-> total,
        query |-> task.searchQuery],
       [type |-> "onStepResults", step |-> step, results |-> results],
       [type |-> "onStepComplete", step |-> step] >>

\* onProgress(i + 1, tasks.length, { ...task, searchQuery }, results)
OnProgress(step, total, task, results) ==
    << [type |-> "progress", step |-> step, total |-> total, task |-> task,
        results |-> results] >>
    \o (IF agPc = "none" THEN <<>> ELSE AgentStepEvents(step, total, task, results))

\* a faulty variant: allResults.unshift(...results)
PushFront(all, results) == results \o all

\* allResults.push(...results)
Push(all, results) == all \o results

\* line 699: task.dependsOn.filter(depId => !taskResults.has(depId)); the
\* list is only logged
unmetDeps(task) == {depId \in task.dependsOn : depId \notin DOMAIN taskResults}

\* a faulty variant: executedTasks.unshift({ ...task, searchQuery })
ExecutedFront(executed, task) == <<task>> \o executed

\* line 741: executedTasks.push({ ...task, searchQuery })
Executed(executed, task) == Append(executed, task)

\* lines 739-746: the task's results are recorded and reported
Record(results, sq, mock) ==
    LET task == [tasks[i + 1] EXCEPT !.searchQuery = sq]
    IN  /\ allResults' = Push(allResults, results)
        /\ taskResults' = [id \in DOMAIN taskResults \cup {task.id} |->
                              IF id = task.id THEN results ELSE taskResults[id]]
        /\ executedTasks' = Executed(executedTasks, task)
        /\ hasMockSearch' = mock
        /\ events' = events \o OnProgress(i + 1, Len(tasks), task, results)
        /\ i' = i + 1
        /\ mhPc' = "loop"
        /\ UNCHANGED <<tasks, searchQuery, firstResp, mhResult, wsVars>>

\* line 641: the route is chosen; the simple route issues its search
MhBegin ==
    /\ mhPc = "start"
    /\ IF ~Truthy(analysis.needsMultiStep)
       THEN /\ mhPc' = "simple_first"
            /\ WebSearchCall(query, 1, events)
       ELSE /\ mhPc' = "planning"
            /\ UNCHANGED <<wsVars, events>>
    /\ UNCHANGED <<env, query, anPc, anReply, analysis, agPc, tasks, i, searchQuery, firstResp,
                   allResults, executedTasks, taskResults, hasMockSearch, mhResult,
                   genVars, rrVars, qcVars, xtVars>>

\* lines 643-684: the first search of the simple route has settled
MhSimpleFirst ==
    /\ mhPc = "simple_first"
    /\ WsSettled
    /\ IF wsPc = "rejected"
       THEN /\ mhPc' = "rejected"
            /\ UNCHANGED <<firstResp, mhResult, wsVars, events>>
       ELSE IF /\ Len(wsResp.results) = 0
               /\ SimplifySimple(query) # query
               /\ Len(SimplifySimple(query)) > 0
            THEN /\ mhPc' = "simple_retry"
                 /\ firstResp' = wsResp
                 /\ WebSearchCall(SimplifySimple(query), 1, events)
                 /\ UNCHANGED mhResult
            ELSE /\ mhPc' = "returned"
                 /\ mhResult' = SimpleReturn(wsResp.results, query,
                                             OrFalse(wsResp.isMockSearch))
                 /\ UNCHANGED <<firstResp, wsVars, events>>
    /\ UNCHANGED <<env, query, anPc, anReply, analysis, agPc, tasks, i, searchQuery, allResults,
                   executedTasks, taskResults, hasMockSearch, genVars, rrVars, qcVars, xtVars>>

\* lines 649-683: the retry of the simple route has settled
MhSimpleRetry ==
    /\ mhPc = "simple_retry"
    /\ WsSettled
    /\ IF wsPc = "rejected"
       THEN /\ mhPc' = "rejected"
            /\ UNCHANGED mhResult
       ELSE /\ mhPc' = "returned"
            /\ mhResult' =
                IF Len(wsResp.results) > 0
                THEN SimpleReturn(wsResp.results, wsQuery,
                                  OrFalse(wsResp.isMockSearch))
                ELSE SimpleReturn(firstResp.results, query,
                                  OrFalse(firstResp.isMockSearch))
    /\ UNCHANGED <<env, query, anPc, anReply, analysis, agPc, tasks, i, searchQuery, firstResp,
                   allResults, executedTasks, taskResults, hasMockSearch, wsVars,
                   genVars, events, rrVars, qcVars, xtVars>>

\* lines 687-691: planTasks resolves
MhPlanned ==
    /\ mhPc = "planning"
    /\ \E plan \in planTasks : tasks' = plan
    /\ allResults' = <<>>
    /\ executedTasks' = <<>>
    /\ taskResults' = <<>>
    /\ hasMockSearch' = "false"
    /\ i' = 0
    /\ mhPc' = "loop"
    /\ UNCHANGED <<env, query, anPc, anReply, analysis, agPc, searchQuery, firstResp, mhResult,
                   wsVars, genVars, events, rrVars, qcVars, xtVars>>

\* a faulty variant: the failure is dropped and the loop runs on no task
PlannerFailureIgnored == "loop"

\* line 687: `await planTasks(...)` stands in no try block, so its rejection
\* rejects executeMultiHopSearch
PlannerRejects == "rejected"

\* line 687: planTasks rejects
MhPlanFails ==
    /\ mhPc = "planning"
    /\ mhPc' = PlannerRejects
    /\ events' = Append(events, Raised("planner"))
    /\ UNCHANGED <<env, query, anPc, anReply, analysis, agPc, tasks, i, searchQuery, firstResp,
                   allResults, executedTasks, taskResults, hasMockSearch, mhResult,
                   wsVars, genVars, rrVars, qcVars, xtVars>>

\* lines 694-715 and 751-760: the loop head; the next task's search is issued,
\* or the loop ends and the result is returned
MhLoop ==
    /\ mhPc = "loop"
    /\ IF i < Len(tasks)
       THEN /\ searchQuery' = BoundQuery(tasks[i + 1].searchQuery)
            /\ WebSearchCall(BoundQuery(tasks[i + 1].searchQuery), i + 1, events)
            /\ mhPc' = "hop_first"
            /\ UNCHANGED mhResult
       ELSE /\ mhPc' = "returned"
            /\ mhResult' = ComplexReturn
            /\ UNCHANGED <<searchQuery, wsVars, events>>
    /\ UNCHANGED <<env, query, anPc, anReply, analysis, agPc, tasks, i, firstResp, allResults,
                   executedTasks, taskResults, hasMockSearch, genVars, rrVars, qcVars, xtVars>>

\* a faulty variant: the retry is issued and the loop goes on without it
RetryNotAwaited == "loop"

\* line 728: `await webSearch(simplifiedQuery)` suspends the loop body until
\* the retry settles
AwaitRetry == "hop_retry"

\* lines 715-746: the first search of a task has settled
MhHopFirst ==
    /\ mhPc = "hop_first"
    /\ WsSettled
    /\ IF wsPc = "rejected"
       THEN /\ mhPc' = "rejected"
            /\ UNCHANGED <<tasks, i, searchQuery, firstResp, allResults,
                           executedTasks, taskResults, hasMockSearch, mhResult,
                           wsVars, events>>
       ELSE LET mock == IF Truthy(wsResp.isMockSearch) THEN "true"
                        ELSE hasMockSearch
            IN  IF /\ Len(wsResp.results) = 0
                   /\ Len(searchQuery) > RetryMinLen
                   /\ SimplifyHop(searchQuery) # searchQuery
                   /\ Len(SimplifyHop(searchQuery)) > 0
                THEN /\ mhPc' = AwaitRetry
                     /\ firstResp' = wsResp
                     /\ hasMockSearch' = mock
                     /\ WebSearchCall(SimplifyHop(searchQuery), i + 1, events)
                     /\ UNCHANGED <<tasks, i, searchQuery, allResults,
                                    executedTasks, taskResults, mhResult>>
                ELSE Record(wsResp.results, searchQuery, mock)
    /\ UNCHANGED <<env, query, anPc, anReply, analysis, agPc, genVars, rrVars, qcVars, xtVars>>

\* a faulty variant: whatever the retry returns is adopted
RetryAnswered(response) == TRUE

\* line 729: retryResponse.results.length > 0
RetrySucceeded(response) == Len(response.results) > 0

\* lines 728-746: the retry of a task has settled
MhHopRetry ==
    /\ mhPc = "hop_retry"
    /\ WsSettled
    /\ IF wsPc = "rejected"
       THEN /\ mhPc' = "rejected"
            /\ UNCHANGED <<tasks, i, searchQuery, firstResp, allResults,
                           executedTasks, taskResults, hasMockSearch, mhResult,
                           wsVars, events>>
       ELSE IF RetrySucceeded(wsResp)
            THEN Record(wsResp.results, wsQuery,
                        IF Truthy(wsResp.isMockSearch) THEN "true"
                        ELSE hasMockSearch)
            ELSE Record(firstResp.results, searchQuery, hasMockSearch)
    /\ UNCHANGED <<env, query, anPc, anReply, analysis, agPc, genVars, rrVars, qcVars, xtVars>>

executeMultiHopSearch ==
    \/ MhBegin \/ MhSimpleFirst \/ MhSimpleRetry
    \/ MhPlanned \/ MhPlanFails
    \/ MhLoop \/ MhHopFirst \/ MhHopRetry

----------------------------------------------------------------------------
(* A direct call of executeMultiHopSearch(query, analysis, onProgress) *)

Complexities == {"simple", "moderate", "complex"}

\* VITE_BRAVE_SEARCH_KEY set, only VITE_SERPAPI_KEY set, neither set
ClientEnvs == {"brave", "serp", "none"}

InitMh ==
    /\ env \in ClientEnvs
    /\ query \in Queries
    /\ anPc = "none"
    /\ anReply = NoValue
    /\ analysis \in [needsMultiStep : {"true", "false"}, complexity : Complexities]
    /\ agPc = "none"
    /\ mhPc = "start"
    /\ tasks = <<>>
    /\ i = 0
    /\ searchQuery = <<>>
    /\ firstResp = NoValue
    /\ allResults = <<>>
    /\ executedTasks = <<>>
    /\ taskResults = <<>>
    /\ hasMockSearch = "false"
    /\ mhResult = NoValue
    /\ wsPc = "idle"
    /\ wsQuery = <<>>
    /\ wsResp = NoValue
    /\ calls = 0
    /\ mockSeen = "false"
    /\ genPc = "none"
    /\ fullText = <<>>
    /\ events = <<>>
    /\ rrPc = "none"
    /\ rrIn = <<>>
    /\ rrQuery = <<>>
    /\ rrOut = NoValue
    /\ qcPc = "none"
    /\ qcText = <<>>
    /\ qcSources = <<>>
    /\ qcOut = NoValue
    /\ IdleXt

NextMh == executeMultiHopSearch \/ webSearch

SpecMh == InitMh /\ [][NextMh]_vars

----------------------------------------------------------------------------
(* queryAnalyzer.ts: analyzeQuery *)

\* /(and|or|compare|versus|vs|versus|difference between)/i
TopicMarkers == {<<"a","n","d">>, <<"o","r">>, <<"c","o","m","p","a","r","e">>,
                 <<"v","e","r","s","u","s">>, <<"v","s">>,
                 <<"d","i","f","f","e","r","e","n","c","e"," ","b","e","t","w","e","e","n">>}
\* /(first|then|after|before|step|process)/i
SequenceMarkers == {<<"f","i","r","s","t">>, <<"t","h","e","n">>, <<"a","f","t","e","r">>,
                    <<"b","e","f","o","r","e">>, <<"s","t","e","p">>,
                    <<"p","r","o","c","e","s","s">>}

hasMultipleTopics(q) == \E m \in TopicMarkers : Includes(ToLower(q), m)
hasSequential(q) == \E m \in SequenceMarkers : Includes(ToLower(q), m)

\* a JSON object in the reply, with its needsMultiStep and complexity fields
Json(needsMultiStep, complexity) ==
    [kind |-> "json", needsMultiStep |-> needsMultiStep, complexity |-> complexity]

\* what the generation service may answer: the call fails; a text with no
\* "{...}" span; a text whose "{...}" span is not JSON; a JSON object
AnalyzerReplies ==
    {[kind |-> "error"], [kind |-> "prose"], [kind |-> "malformed"],
     Json("true", "complex"), Json("true", "simple"), Json("false", "simple"),
     Json("false", "moderate"), Json("undefined", "undefined"),
     Json("true", "undefined"), Json("undefined", "complex"), Json("yes", "high")}

\* lines 59-68: the marker heuristic
Heuristic(q) ==
    [needsMultiStep |-> IF hasMultipleTopics(q) \/ hasSequential(q) THEN "true"
                        ELSE "false",
     complexity |-> IF hasMultipleTopics(q) \/ hasSequential(q) THEN "moderate"
                    ELSE "simple"]

\* lines 69-78: the catch block
AnalysisFailed == [needsMultiStep |-> "false", complexity |-> "simple"]

analyzeQuery(q, reply) ==
    IF reply.kind \in {"error", "malformed"} THEN AnalysisFailed
    ELSE IF reply.kind = "json"
         THEN [needsMultiStep |-> Or(reply.needsMultiStep, "false"),
               complexity |-> Or(reply.complexity, "simple")]
         ELSE Heuristic(q)

\* lines 23-42: the prompt is sent
AnCall ==
    /\ anPc = "start"
    /\ anPc' = "awaiting"
    /\ UNCHANGED <<env, query, anReply, analysis, agPc, mhVars, wsVars, genVars,
                   events, rrVars, qcVars, xtVars>>

\* lines 42-78: the call has settled and analyzeQuery resolves
AnSettles ==
    /\ anPc = "awaiting"
    /\ anPc' = "returned"
    /\ analysis' = analyzeQuery(query, anReply)
    /\ UNCHANGED <<env, query, anReply, agPc, mhVars, wsVars, genVars, events,
                   rrVars, qcVars, xtVars>>

----------------------------------------------------------------------------
(* A direct call of analyzeQuery(query) *)

\* "World war one": no comparison, but "or" occurs inside "World"
QWorld == <<"W","o","r","l","d"," ","w","a","r"," ","o","n","e">>
\* "Steps to bake bread"
QSteps == <<"S","t","e","p","s"," ","t","o"," ","b","a","k","e"," ","b","r","e","a","d">>

InitAn ==
    /\ env = "none"
    /\ query \in Queries \cup {QWorld, QSteps}
    /\ anPc = "start"
    /\ anReply \in AnalyzerReplies
    /\ analysis = NoValue
    /\ agPc = "none"
    /\ mhPc = "idle"
    /\ tasks = <<>>
    /\ i = 0
    /\ searchQuery = <<>>
    /\ firstResp = NoValue
    /\ allResults = <<>>
    /\ executedTasks = <<>>
    /\ taskResults = <<>>
    /\ hasMockSearch = "false"
    /\ mhResult = NoValue
    /\ wsPc = "idle"
    /\ wsQuery = <<>>
    /\ wsResp = NoValue
    /\ calls = 0
    /\ mockSeen = "false"
    /\ genPc = "none"
    /\ fullText = <<>>
    /\ events = <<>>
    /\ rrPc = "none"
    /\ rrIn = <<>>
    /\ rrQuery = <<>>
    /\ rrOut = NoValue
    /\ qcPc = "none"
    /\ qcText = <<>>
    /\ qcSources = <<>>
    /\ qcOut = NoValue
    /\ IdleXt

NextAn == AnCall \/ AnSettles

SpecAn == InitAn /\ [][NextAn]_vars

----------------------------------------------------------------------------
(* geminiService.ts: generateStreamingResponse *)

\* the most chunks of one stream
MaxChunks == 2

\* the text of the k-th chunk of the stream
ChunkText(k) == <<LowerCase[k]>>

\* a faulty variant: fullText = chunkText
Overwrite(text, chunk) == chunk

\* line 130: fullText += chunkText
Accumulate(text, chunk) == text \o chunk

\* a faulty variant: the catch block reports the error and completes as well
GenCaughtAndCompleted(ev) ==
    Append(Append(Append(ev, Raised("generation")), [type |-> "onError"]),
           [type |-> "onComplete", text |-> fullText])

\* lines 142-148: the catch block
GenCaught(ev) == Append(Append(ev, Raised("generation")), [type |-> "onError"])

\* lines 94-124: the client cannot be built or sendMessageStream rejects
GenOpenFails ==
    /\ genPc = "start"
    /\ genPc' = "done"
    /\ events' = GenCaught(events)
    /\ UNCHANGED <<env, query, anPc, anReply, analysis, agPc, mhVars, wsVars, fullText,
                   rrVars, qcVars, xtVars>>

\* line 124: sendMessageStream resolves
GenOpens ==
    /\ genPc = "start"
    /\ genPc' = "streaming"
    /\ fullText' = <<>>
    /\ UNCHANGED <<env, query, anPc, anReply, analysis, agPc, mhVars, wsVars, events,
                   rrVars, qcVars, xtVars>>

\* lines 128-132: one chunk arrives
GenToken ==
    /\ genPc = "streaming"
    /\ Len(SelectSeq(events, LAMBDA e : e.type = "onToken")) < MaxChunks
    /\ LET tok == ChunkText(Len(SelectSeq(events, LAMBDA e : e.type = "onToken")) + 1)
       IN  /\ fullText' = Accumulate(fullText, tok)
           /\ events' = Append(events, [type |-> "onToken", token |-> tok])
    /\ UNCHANGED <<env, query, anPc, anReply, analysis, agPc, mhVars, wsVars, genPc,
                   rrVars, qcVars, xtVars>>

\* lines 128, 142-148: the stream throws
GenStreamFails ==
    /\ genPc = "streaming"
    /\ genPc' = "done"
    /\ events' = GenCaught(events)
    /\ UNCHANGED <<env, query, anPc, anReply, analysis, agPc, mhVars, wsVars, fullText,
                   rrVars, qcVars, xtVars>>

\* lines 134-141: the stream ends
GenCompletes ==
    /\ genPc = "streaming"
    /\ genPc' = "done"
    /\ events' = Append(events, [type |-> "onComplete", text |-> fullText])
    /\ UNCHANGED <<env, query, anPc, anReply, analysis, agPc, mhVars, wsVars, fullText,
                   rrVars, qcVars, xtVars>>

generateStreamingResponse ==
    GenOpenFails \/ GenOpens \/ GenToken \/ GenStreamFails \/ GenCompletes

----------------------------------------------------------------------------
(* agentService.ts: agentSearch *)

\* the replies of the generation service to the analyzer's prompt in an agent
\* run: with them the analysis is multi-step for the query QCompare answered
\* in prose, single-step and simple, or single-step and moderate
AgentReplies ==
    {[kind |-> "error"], [kind |-> "prose"], Json("false", "simple"),
     Json("false", "moderate")}

\* a faulty variant: a catch block that reports nothing
Swallowed(ev) == ev

\* lines 593-596: the catch block
Caught(ev) == Append(ev, [type |-> "onError"])

\* line 503
AgBegin ==
    /\ agPc = "start"
    /\ agPc' = "analyzing"
    /\ events' = Append(events, [type |-> "onThinking"])
    /\ UNCHANGED <<env, query, anPc, anReply, analysis, mhVars, wsVars, genVars,
                   rrVars, qcVars, xtVars>>

\* lines 504-511 and 529-531: analyzeQuery resolves and the route is chosen
AgAnalyzed ==
    /\ agPc = "analyzing"
    /\ \E reply \in AgentReplies :
        LET a == analyzeQuery(query, reply)
            analyzed == Append(events, [type |-> "onProgress", label |-> "analyzed",
                                        complexity |-> a.complexity])
        IN  /\ analysis' = a
            /\ IF a.complexity = "simple" /\ ~Truthy(a.needsMultiStep)
               THEN /\ agPc' = "simple_search"
                    /\ WebSearchCall(query, 1,
                          Append(analyzed, [type |-> "onProgress",
                                            label |-> "simple mode"]))
               ELSE /\ agPc' = "planning"
                    /\ events' = Append(analyzed, [type |-> "onThinking"])
                    /\ UNCHANGED wsVars
    /\ UNCHANGED <<env, query, anPc, anReply, mhVars, genVars, rrVars, qcVars, xtVars>>

\* lines 511-525 and 593-596: the search of the simple flow has settled
AgSimpleSearched ==
    /\ agPc = "simple_search"
    /\ WsSettled
    /\ IF wsPc = "rejected"
       THEN /\ agPc' = "done"
            /\ events' = Caught(events)
            /\ UNCHANGED genVars
       ELSE /\ agPc' = "generating"
            /\ events' = events \o
                << [type |-> "onToolCall", query |-> query,
                    isMockSearch |-> wsResp.isMockSearch],
                   [type |-> "onMockSearchDetected",
                    isMock |-> OrFalse(wsResp.isMockSearch)],
                   [type |-> "onSourcesUpdate", sources |-> wsResp.results] >>
            /\ genPc' = "start"
            /\ UNCHANGED fullText
    /\ UNCHANGED <<env, query, anPc, anReply, analysis, mhVars, wsVars, rrVars, qcVars, xtVars>>

\* lines 531-538: planTasks resolves; the plan is announced and the engine called
AgPlanned ==
    /\ agPc = "planning"
    /\ \E plan \in planTasks :
        events' = events \o << [type |-> "onProgress", label |-> "planned",
                                n |-> Len(plan)],
                               [type |-> "onThinking"] >>
    /\ agPc' = "multihop"
    /\ mhPc' = "start"
    /\ UNCHANGED <<env, query, anPc, anReply, analysis, tasks, i, searchQuery, firstResp,
                   allResults, executedTasks, taskResults, hasMockSearch, mhResult,
                   wsVars, genVars, rrVars, qcVars, xtVars>>

\* lines 531 and 593-596: planTasks rejects
AgPlanFails ==
    /\ agPc = "planning"
    /\ agPc' = "done"
    /\ events' = Caught(Append(events, Raised("planner")))
    /\ UNCHANGED <<env, query, anPc, anReply, analysis, mhVars, wsVars, genVars,
                   rrVars, qcVars, xtVars>>

\* lines 538-592 and 593-596: executeMultiHopSearch has settled
AgMultiHopDone ==
    /\ agPc = "multihop"
    /\ mhPc \in {"returned", "rejected"}
    /\ IF mhPc = "rejected"
       THEN /\ agPc' = "done"
            /\ events' = Caught(events)
            /\ UNCHANGED genVars
       ELSE /\ agPc' = "generating"
            /\ events' = events
                \o (IF Truthy(mhResult.hasMockSearch)
                    THEN << [type |-> "onMockSearchDetected", isMock |-> "true"] >>
                    ELSE <<>>)
                \o << [type |-> "onSourcesUpdate",
                       sources |-> mhResult.allResults] >>
                \o (IF Len(mhResult.allResults) = 0
                    THEN << [type |-> "onThinking"] >>
                    ELSE <<>>)
                \o << [type |-> "onThinking"] >>
            /\ genPc' = "start"
            /\ UNCHANGED fullText
    /\ UNCHANGED <<env, query, anPc, anReply, analysis, mhVars, wsVars, rrVars, qcVars, xtVars>>

\* lines 519-526, 569-576, 586-592: generateStreamingResponse has resolved
AgGenerated ==
    /\ agPc = "generating"
    /\ genPc = "done"
    /\ agPc' = "done"
    /\ UNCHANGED <<env, query, anPc, anReply, analysis, mhVars, wsVars, genVars, events,
                   rrVars, qcVars, xtVars>>

agentSearch ==
    \/ AgBegin \/ AgAnalyzed \/ AgSimpleSearched
    \/ AgPlanned \/ AgPlanFails \/ AgMultiHopDone \/ AgGenerated

----------------------------------------------------------------------------
(* A call of agentSearch(query, history, callbacks) *)

Init ==
    /\ env \in ClientEnvs
    /\ query \in Queries
    /\ anPc = "none"
    /\ anReply = NoValue
    /\ analysis = NoValue
    /\ agPc = "start"
    /\ mhPc = "idle"
    /\ tasks = <<>>
    /\ i = 0
    /\ searchQuery = <<>>
    /\ firstResp = NoValue
    /\ allResults = <<>>
    /\ executedTasks = <<>>
    /\ taskResults = <<>>
    /\ hasMockSearch = "false"
    /\ mhResult = NoValue
    /\ wsPc = "idle"
    /\ wsQuery = <<>>
    /\ wsResp = NoValue
    /\ calls = 0
    /\ mockSeen = "false"
    /\ genPc = "none"
    /\ fullText = <<>>
    /\ events = <<>>
    /\ rrPc = "none"
    /\ rrIn = <<>>
    /\ rrQuery = <<>>
    /\ rrOut = NoValue
    /\ qcPc = "none"
    /\ qcText = <<>>
    /\ qcSources = <<>>
    /\ qcOut = NoValue
    /\ IdleXt

Next ==
    agentSearch \/ executeMultiHopSearch \/ webSearch \/ generateStreamingResponse

Spec == Init /\ [][Next]_vars

----------------------------------------------------------------------------
(* retrievalService.ts: rerankResults *)

DOMAIN_BLACKLIST ==
    {<<"e","x","a","m","p","l","e",".","c","o","m">>,
     <<"t","e","s","t",".","c","o","m">>,
     <<"l","o","c","a","l","h","o","s","t">>,
     <<"1","2","7",".","0",".","0",".","1">>}

TRUSTED_DOMAINS ==
    {<<"w","i","k","i","p","e","d","i","a",".","o","r","g">>,
     <<"e","d","u">>, <<"g","o","v">>,
     <<"n","a","t","u","r","e",".","c","o","m">>,
     <<"s","t","a","c","k","o","v","e","r","f","l","o","w",".","c","o","m">>,
     <<"g","i","t","h","u","b",".","c","o","m">>,
     <<"r","e","d","d","i","t",".","c","o","m">>,
     <<"m","e","d","i","u","m",".","c","o","m">>,
     <<"i","n","v","e","s","t","o","p","e","d","i","a",".","c","o","m">>,
     <<"f","o","r","b","e","s",".","c","o","m">>,
     <<"t","e","c","h","c","r","u","n","c","h",".","c","o","m">>,
     <<"a","r","s","t","e","c","h","n","i","c","a",".","c","o","m">>}

\* String.prototype.endsWith
EndsWith(s, p) == Len(p) <= Len(s) /\ SubSeq(s, Len(s) - Len(p) + 1, Len(s)) = p

\* the number of entries of a list of words that occur in a text
MatchCount(words, text) ==
    Cardinality({k \in 1..Len(words) : Includes(text, words[k])})

\* queryLower.split(/\s+/).filter(w => w.length > n)
LongWords(q, n) == SelectSeq(SplitWs(ToLower(q)), LAMBDA w : Len(w) > n)

\* lines 163-208
isMockResult(result, q) ==
    LET domain == ToLower(result.domain)
        url == ToLower(result.url)
        title == ToLower(result.title)
        queryLower == ToLower(q)
        queryWords == LongWords(q, 3)
        suspiciousPattern == Join(Slice0(queryWords, 3), <<"-">>)
        isLongQuery == Len(q) > 100
    IN  \/ \E blacklisted \in DOMAIN_BLACKLIST : Includes(domain, blacklisted)
        \/ /\ Includes(domain, <<"w","i","k","i","p","e","d","i","a",".","o","r","g">>)
           /\ Includes(url, ReplaceWs(queryLower, <<"_">>))
           /\ title = queryLower
        \/ /\ Includes(domain, <<"e","x","a","m","p","l","e",".","c","o","m">>)
           /\ Includes(url, ReplaceWs(queryLower, <<"-">>))
        \/ /\ Len(queryWords) > 0
           /\ Includes(url, suspiciousPattern)
           /\ \/ Includes(domain, <<"e","x","a","m","p","l","e",".","c","o","m">>)
              \/ Includes(domain, <<"t","e","s","t">>)
        \/ /\ ~isLongQuery
           /\ \/ title = queryLower
              \/ title = queryLower \o <<" ","-"," ","w","i","k","i","p","e","d","i","a">>
              \/ title = <<"u","n","d","e","r","s","t","a","n","d","i","n","g"," ">> \o queryLower

\* lines 213-233
calculateDomainCredibility(domain) ==
    LET domainLower == ToLower(domain)
    IN  IF \E blacklisted \in DOMAIN_BLACKLIST : Includes(domainLower, blacklisted)
        THEN -5
        ELSE IF \/ EndsWith(domainLower, <<".","e","d","u">>)
                \/ EndsWith(domainLower, <<".","g","o","v">>)
             THEN 5
             ELSE IF \E trusted \in TRUSTED_DOMAINS : Includes(domainLower, trusted)
                  THEN 3
                  ELSE 1

\* lines 238-258
calculateUrlValidity(url, q) ==
    LET urlLower == ToLower(url)
        queryWords == LongWords(q, 3)
        suspiciousPattern == Join(Slice0(queryWords, 3), <<"-">>)
    IN  IF \/ Includes(urlLower, <<"e","x","a","m","p","l","e",".","c","o","m">>)
           \/ Includes(urlLower, <<"t","e","s","t",".","c","o","m">>)
        THEN -3
        ELSE IF /\ Len(queryWords) > 0
                /\ Includes(urlLower, suspiciousPattern)
                /\ \/ Includes(urlLower, <<"e","x","a","m","p","l","e">>)
                   \/ Includes(urlLower, <<"t","e","s","t">>)
             THEN -3
             ELSE 2

\* lines 263-270
calculateSnippetQuality(snippet) ==
    IF Len(snippet) < 30 THEN -2 ELSE Min(3, Len(snippet) \div 50)

\* lines 275-297
calculateTitleRelevance(title, q) ==
    LET titleLower == ToLower(title)
        queryLower == ToLower(q)
        queryWords == LongWords(q, 2)
        isLongQuery == Len(q) > 100
        matchCount == MatchCount(queryWords, titleLower)
    IN  IF titleLower = queryLower THEN (IF isLongQuery THEN 0 ELSE -1)
        ELSE IF 2 * matchCount >= Len(queryWords) THEN 2
             ELSE 0

\* the keyword loop of lines 328-337 and 372-381: inTitle for every q word
\* longer than 2 that the title contains, inSnippet for every one the snippet
\* contains
KeywordScore(result, q, inTitle, inSnippet) ==
    LET queryWords == LongWords(q, 2)
    IN  inTitle * MatchCount(queryWords, ToLower(result.title))
        + inSnippet * MatchCount(queryWords, ToLower(result.snippet))

\* lines 302-341
calculateQualityScore(result, q) ==
    LET scoringQuery == IF Len(q) > 150
                        THEN Join(Slice0(SplitWs(q), 10), <<" ">>)
                        ELSE q
    IN  calculateDomainCredibility(result.domain)
        + calculateUrlValidity(result.url, q)
        + calculateSnippetQuality(result.snippet)
        + calculateTitleRelevance(result.title, scoringQuery)
        + KeywordScore(result, scoringQuery, 2, 1)

\* a faulty variant: no filtering, as in the earlier revision of rerankResults
keepAll(results, q) == results

\* lines 346-357
filterLowQualityResults(results, q) ==
    SelectSeq(results,
              LAMBDA result : /\ ~isMockResult(result, q)
                              /\ calculateQualityScore(result, q) >= 0)

\* lines 363-389
calculateRelevanceScore(result, q) ==
    KeywordScore(result, q, 3, 1)
    + (IF \E domain \in TRUSTED_DOMAINS : Includes(result.domain, domain) THEN 2 ELSE 0)

\* the rounding of the double qualityScore * 0.6 + relevanceScore * 0.4: row
\* q + 12 (q from -11 to 19), column r + 1 (r from 0 to 12) holds the integer e
\* for which the double equals ((3q + 2r) * 2^54 + e) / (5 * 2^54) under
\* IEEE-754 round-to-nearest, where 0.6 and 0.4 are the doubles nearest to 3/5
\* and 2/5
FloatError ==
    <<
       <<32, 64, 16, 48, 0, 32, 64, 56, 48, 40, 32, 64, 96>>,
       <<0, 32, -16, 16, -32, 0, 32, 24, 16, 8, 0, 32, 64>>,
       <<48, 80, 32, 64, 56, 48, 80, 72, 64, 56, 48, 80, 112>>,
       <<16, 48, 0, 32, 24, 16, 48, 40, 32, 24, 16, 48, 80>>,
       <<-16, -24, -32, 0, -8, -16, 16, 8, 0, -8, -16, 16, 48>>,
       <<32, 24, 16, 48, 40, 32, 64, 56, 48, 40, 32, 64, 96>>,
       <<0, -8, -16, 16, 8, 0, 32, 24, 16, 8, 0, 32, 64>>,
       <<8, 0, 12, 24, 16, 8, 40, 32, 24, 16, 8, 40, 72>>,
       <<16, 8, 20, 32, 24, 16, 48, 40, 32, 24, 16, 48, 80>>,
       <<4, 6, 8, 20, 12, 4, 36, 28, 0, 32, -16, 16, 48>>,
       <<2, 4, 6, 18, 0, -8, 24, 16, 8, 0, -8, 24, 96>>,
       <<0, 2, 4, 16, 8, 0, 32, 24, 16, 8, 0, 32, 64>>,
       <<-2, 0, -8, 24, 16, 8, 40, 32, 24, 16, -32, 0, 32>>,
       <<-4, 8, 0, 32, -16, 16, 48, 0, 32, -16, 16, 48, 80>>,
       <<-16, -24, -32, 0, -8, -16, 16, -32, 0, 32, -16, 16, 48>>,
       <<-8, -16, 16, 8, 0, 32, 64, 16, -32, 0, 32, 64, 96>>,
       <<0, -8, -16, 16, -32, 0, 32, 64, 16, -32, 0, 32, 64>>,
       <<-32, -40, -48, -16, -64, -32, 0, 32, -16, -64, -32, 0, 32>>,
       <<16, 48, 0, 32, 64, 16, 48, 0, 32, 64, -64, 128, 0>>,
       <<-16, 16, -32, 0, 32, -16, 16, -32, 0, 32, 64, -64, 128>>,
       <<-48, -16, -64, -32, 0, -48, -16, -64, -32, 0, -128, 64, -64>>,
       <<0, 32, -16, 16, -32, 0, 32, 64, -64, -32, 0, 32, 64>>,
       <<-32, 0, -48, -16, -64, -32, 0, 32, 64, -64, -32, 0, 32>>,
       <<-64, -32, -80, -128, -96, -64, -32, 0, -128, -96, -64, -32, 0>>,
       <<-16, -64, -32, 0, 32, 64, -64, -32, 0, 32, 64, -64, 128>>,
       <<32, 64, 96, 128, 0, 32, 64, 96, 128, 0, 32, 64, 96>>,
       <<0, 32, 64, -64, -32, 0, 32, 64, -64, -32, 0, 32, 64>>,
       <<-32, 0, 32, 64, -64, -32, 0, 32, 64, -64, -32, 0, 32>>,
       <<-64, -32, 0, -128, -96, -64, -32, 0, -128, -96, -64, -32, 0>>,
       <<-96, -64, -32, 0, -128, -96, -64, -32, 0, -128, -96, -64, -32>>,
       <<32, 64, 96, 128, 0, 32, 64, 96, 128, 0, 32, 64, 256>>
    >>

\* line 426: qualityScore * 0.6 + relevanceScore * 0.4 as the pair
\* <<3q + 2r, e>>; two such doubles compare as their pairs do, first component
\* first
CombinedScore(qualityScore, relevanceScore) ==
    <<3 * qualityScore + 2 * relevanceScore,
      FloatError[qualityScore + 12][relevanceScore + 1]>>

\* x > y on doubles held as pairs
Greater(x, y) == x[1] > y[1] \/ (x[1] = y[1] /\ x[2] > y[2])

\* a faulty variant: the sort of the earlier revision, by relevanceScore
sortByRelevance(scored) ==
    LET before(a, b) == \/ scored[a].relevanceScore > scored[b].relevanceScore
                        \/ /\ scored[a].relevanceScore = scored[b].relevanceScore
                           /\ a < b
        rank(a) == Cardinality({b \in 1..Len(scored) : before(b, a)}) + 1
    IN  [p \in 1..Len(scored) |->
            scored[CHOOSE a \in 1..Len(scored) : rank(a) = p]]

\* line 437: Array.prototype.sort with the comparator
\* (a, b) => (b.combinedScore || 0) - (a.combinedScore || 0); the sort is stable
sort(scored) ==
    LET before(a, b) == \/ Greater(scored[a].combinedScore, scored[b].combinedScore)
                        \/ /\ scored[a].combinedScore = scored[b].combinedScore
                           /\ a < b
        rank(a) == Cardinality({b \in 1..Len(scored) : before(b, a)}) + 1
    IN  [p \in 1..Len(scored) |->
            scored[CHOOSE a \in 1..Len(scored) : rank(a) = p]]

RerankLimit == 7

\* lines 418-447; the evidence field is left out
rerankResults(results, q) ==
    LET filtered == filterLowQualityResults(results, q)
        scored == Tuple([k \in 1..Len(filtered) |->
                     LET result == filtered[k]
                         qualityScore == calculateQualityScore(result, q)
                         relevanceScore == calculateRelevanceScore(result, q)
                     IN  [id |-> result.id, title |-> result.title,
                          url |-> result.url, snippet |-> result.snippet,
                          domain |-> result.domain,
                          relevanceScore |-> relevanceScore,
                          qualityScore |-> qualityScore,
                          combinedScore |-> CombinedScore(qualityScore,
                                                          relevanceScore)]],
                        Len(filtered))
        sorted == sort(scored)
    IN  [k \in 1..Min(RerankLimit, Len(sorted)) |->
            [id |-> sorted[k].id, title |-> sorted[k].title, url |-> sorted[k].url,
             snippet |-> sorted[k].snippet, domain |-> sorted[k].domain,
             relevanceScore |-> sorted[k].relevanceScore]]

\* rerankResults(results, query) is called and returns
RrCall ==
    /\ rrPc = "start"
    /\ rrPc' = "returned"
    /\ rrOut' = rerankResults(rrIn, rrQuery)
    /\ UNCHANGED <<env, query, anPc, anReply, analysis, agPc, mhVars, wsVars,
                   genVars, events, rrIn, rrQuery, qcVars, xtVars>>

----------------------------------------------------------------------------
(* A call of rerankResults(results, query) *)

\* "react hooks"
RQHooks == <<"r","e","a","c","t"," ","h","o","o","k","s">>
\* "What is JSX"
RQJsx == <<"W","h","a","t"," ","i","s"," ","J","S","X">>

\* s followed by dots up to length n
Pad(s, n) == s \o Rep(".", n - Len(s))

\* Guide: "React Hooks Guide" at react.dev
Guide ==
    [domain |-> <<"r","e","a","c","t",".","d","e","v">>,
     url |-> <<"h", "t", "t", "p", "s", ":", "/", "/", "r", "e", "a", "c", "t", ".", "d", "e", "v",
             "/", "h", "o", "o", "k", "s">>,
     title |-> <<"R", "e", "a", "c", "t", " ", "H", "o", "o", "k", "s", " ", "G", "u", "i", "d", "e">>,
     snippet |-> Pad(<<"H","o","o","k","s"," ","l","e","t"," ","y","o","u"," ","u","s","e"," ","s","t","a","t","e"," ","i","n"," ","R","e","a","c","t"," ","c","o","m","p","o","n","e","n","t","s">>, 50)]

\* Wiki: "JSX (JavaScript)" at en.wikipedia.org
Wiki ==
    [domain |-> <<"e","n",".","w","i","k","i","p","e","d","i","a",".","o","r","g">>,
     url |-> <<"h", "t", "t", "p", "s", ":", "/", "/", "e", "n", ".", "w", "i", "k", "i", "p", "e",
             "d", "i", "a", ".", "o", "r", "g", "/", "w", "i", "k", "i", "/", "J", "S",
             "X">>,
     title |-> <<"J", "S", "X", " ", "(", "J", "a", "v", "a", "S", "c", "r", "i", "p", "t", ")">>,
     snippet |-> <<"A"," ","J","a","v","a","S","c","r","i","p","t"," ","l","i","b","r","a","r","y"," ","f","o","r"," ","i","n","t","e","r","f","a","c","e","s">>]

\* Notes: "Weekly notes" at medium.com
Notes ==
    [domain |-> <<"m","e","d","i","u","m",".","c","o","m">>,
     url |-> <<"h", "t", "t", "p", "s", ":", "/", "/", "m", "e", "d", "i", "u", "m", ".", "c", "o",
             "m", "/", "?", "r", "e", "f", "=", "t", "e", "s", "t", ".", "c", "o", "m">>,
     title |-> <<"W", "e", "e", "k", "l", "y", " ", "n", "o", "t", "e", "s">>,
     snippet |-> Pad(<<"T","h","i","n","g","s"," ","I"," ","r","e","a","d"," ","t","h","i","s"," ","w","e","e","k">>, 35)]

\* Guide2: "A guide to React hooks" at hooks.guide
Guide2 ==
    [domain |-> <<"h","o","o","k","s",".","g","u","i","d","e">>,
     url |-> <<"h", "t", "t", "p", "s", ":", "/", "/", "h", "o", "o", "k", "s", ".", "g", "u", "i",
             "d", "e", "/", "r", "e", "a", "c", "t">>,
     title |-> <<"A", " ", "g", "u", "i", "d", "e", " ", "t", "o", " ", "R", "e", "a", "c", "t", " ",
               "h", "o", "o", "k", "s">>,
     snippet |-> Pad(<<"R","e","a","c","t"," ","s","t","a","t","e"," ","w","i","t","h"," ","h","o","o","k","s">>, 50)]

\* Intro: "Intro to React" at blog.io
Intro ==
    [domain |-> <<"b","l","o","g",".","i","o">>,
     url |-> <<"h", "t", "t", "p", "s", ":", "/", "/", "b", "l", "o", "g", ".", "i", "o", "/", "?",
             "r", "e", "f", "=", "t", "e", "s", "t", ".", "c", "o", "m">>,
     title |-> <<"I", "n", "t", "r", "o", " ", "t", "o", " ", "R", "e", "a", "c", "t">>,
     snippet |-> Pad(<<"A"," ","s","h","o","r","t"," ","i","n","t","r","o","d","u","c","t","i","o","n">>, 50)]

\* Design: "Design systems" at blog.io
Design ==
    [domain |-> <<"b","l","o","g",".","i","o">>,
     url |-> <<"h", "t", "t", "p", "s", ":", "/", "/", "b", "l", "o", "g", ".", "i", "o", "/", "d",
             "e", "s", "i", "g", "n">>,
     title |-> <<"D", "e", "s", "i", "g", "n", " ", "s", "y", "s", "t", "e", "m", "s">>,
     snippet |-> Pad(<<"H","o","w"," ","t","e","a","m","s"," ","s","h","a","r","e"," ","c","o","m","p","o","n","e","n","t","s">>, 100)]

\* Tips: "Ten tips" at tips.dev
Tips ==
    [domain |-> <<"t","i","p","s",".","d","e","v">>,
     url |-> <<"h", "t", "t", "p", "s", ":", "/", "/", "t", "i", "p", "s", ".", "d", "e", "v", "/",
             "a">>,
     title |-> <<"T", "e", "n", " ", "t", "i", "p", "s">>,
     snippet |-> Pad(<<"C","u","s","t","o","m"," ","h","o","o","k","s"," ","i","n"," ","p","r","a","c","t","i","c","e">>, 100)]

\* Talk: "React talk" at talks.io
Talk ==
    [domain |-> <<"t","a","l","k","s",".","i","o">>,
     url |-> <<"h", "t", "t", "p", "s", ":", "/", "/", "t", "a", "l", "k", "s", ".", "i", "o", "/",
             "?", "r", "e", "f", "=", "t", "e", "s", "t", ".", "c", "o", "m">>,
     title |-> <<"R", "e", "a", "c", "t", " ", "t", "a", "l", "k">>,
     snippet |-> Pad(<<"S","l","i","d","e","s"," ","o","n"," ","h","o","o","k","s">>, 50)]

\* Example: "Understanding react hooks" at example.com
Example ==
    [domain |-> <<"e","x","a","m","p","l","e",".","c","o","m">>,
     url |-> <<"h", "t", "t", "p", "s", ":", "/", "/", "e", "x", "a", "m", "p", "l", "e", ".", "c",
             "o", "m", "/", "r", "e", "a", "c", "t", "-", "h", "o", "o", "k", "s">>,
     title |-> <<"U", "n", "d", "e", "r", "s", "t", "a", "n", "d", "i", "n", "g", " ", "r", "e", "a",
               "c", "t", " ", "h", "o", "o", "k", "s">>,
     snippet |-> Pad(<<"A","l","l"," ","a","b","o","u","t"," ","r","e","a","c","t"," ","h","o","o","k","s">>, 50)]

\* Local: "React dev server" at LocalHost
Local ==
    [domain |-> <<"L","o","c","a","l","H","o","s","t">>,
     url |-> <<"h", "t", "t", "p", ":", "/", "/", "l", "o", "c", "a", "l", "h", "o", "s", "t", ":",
             "3", "0", "0", "0", "/">>,
     title |-> <<"R", "e", "a", "c", "t", " ", "d", "e", "v", " ", "s", "e", "r", "v", "e", "r">>,
     snippet |-> Pad(<<"R","u","n","n","i","n","g">>, 35)]

\* Spam: "Welcome" at blog.io
Spam ==
    [domain |-> <<"b","l","o","g",".","i","o">>,
     url |-> <<"h", "t", "t", "p", "s", ":", "/", "/", "b", "l", "o", "g", ".", "i", "o", "/", "?",
             "u", "=", "t", "e", "s", "t", ".", "c", "o", "m">>,
     title |-> <<"W", "e", "l", "c", "o", "m", "e">>,
     snippet |-> <<"C","l","i","c","k"," ","h","e","r","e">>]

\* Echo: "React Hooks" at dev.to
Echo ==
    [domain |-> <<"d","e","v",".","t","o">>,
     url |-> <<"h", "t", "t", "p", "s", ":", "/", "/", "d", "e", "v", ".", "t", "o", "/", "p", "/",
             "1">>,
     title |-> <<"R", "e", "a", "c", "t", " ", "H", "o", "o", "k", "s">>,
     snippet |-> Pad(<<"E","v","e","r","y","t","h","i","n","g"," ","a","b","o","u","t"," ","i","t">>, 50)]

\* the results a provider may return: for the query "react hooks" the first
\* eight pass the filter and the last four do not
Catalogue == <<Guide, Wiki, Notes, Guide2, Intro, Design, Tips, Talk, Example, Local, Spam, Echo>>

\* the longest exhaustively enumerated input list
MaxShort == 2
\* the longest input list
MaxResults == 9

\* a list of catalogue entries as a provider's result list, ids by position
AsResults(entries) ==
    [k \in 1..Len(entries) |->
        [id |-> k, title |-> Catalogue[entries[k]].title,
         url |-> Catalogue[entries[k]].url,
         snippet |-> Catalogue[entries[k]].snippet,
         domain |-> Catalogue[entries[k]].domain]]

\* every list of at most MaxShort catalogue entries, and the runs of up to
\* MaxResults consecutive entries of the catalogue, read cyclically, forwards
\* and backwards
InputLists ==
    LET K == Len(Catalogue)
        short == UNION {[1..n -> 1..K] : n \in 0..MaxShort}
        forwards == {[k \in 1..n |-> ((k + r) % K) + 1] :
                        n \in (MaxShort + 1)..MaxResults, r \in 0..(K - 1)}
        backwards == {[k \in 1..n |-> ((n - k + r) % K) + 1] :
                        n \in (MaxShort + 1)..MaxResults, r \in 0..(K - 1)}
    IN  {AsResults(entries) : entries \in short \cup forwards \cup backwards}

InitRr ==
    /\ env = "none"
    /\ query = <<>>
    /\ anPc = "none"
    /\ anReply = NoValue
    /\ analysis = NoValue
    /\ agPc = "none"
    /\ mhPc = "idle"
    /\ tasks = <<>>
    /\ i = 0
    /\ searchQuery = <<>>
    /\ firstResp = NoValue
    /\ allResults = <<>>
    /\ executedTasks = <<>>
    /\ taskResults = <<>>
    /\ hasMockSearch = "false"
    /\ mhResult = NoValue
    /\ wsPc = "idle"
    /\ wsQuery = <<>>
    /\ wsResp = NoValue
    /\ calls = 0
    /\ mockSeen = "false"
    /\ genPc = "none"
    /\ fullText = <<>>
    /\ events = <<>>
    /\ rrPc = "start"
    /\ rrIn \in InputLists
    /\ rrQuery \in {RQHooks, RQJsx}
    /\ rrOut = NoValue
    /\ qcPc = "none"
    /\ qcText = <<>>
    /\ qcSources = <<>>
    /\ qcOut = NoValue
    /\ IdleXt

NextRr == RrCall

SpecRr == InitRr /\ [][NextRr]_vars

----------------------------------------------------------------------------
(* qualityService.ts (server): checkResponseQuality and its helpers *)

DigitValue(c) == (CHOOSE d \in 1..10 : Digits[d] = c) - 1

\* parseInt(digits, 10) of a run of decimal digits (exact below 2^53)
RECURSIVE parseInt(_)
parseInt(ds) ==
    IF ds = <<>> THEN 0
    ELSE 10 * parseInt(SubSeq(ds, 1, Len(ds) - 1)) + DigitValue(ds[Len(ds)])

\* the members of a set of numbers in increasing order: sort((a, b) => a - b)
Ascending(S) ==
    Tuple([k \in 1..Cardinality(S) |->
              CHOOSE x \in S : Cardinality({y \in S : y < x}) = k - 1],
          Cardinality(S))

\* the position after the digits that follow position k
DigitsEnd(text, k) ==
    CHOOSE e \in (k + 1)..(Len(text) + 1) :
        /\ \A j \in (k + 1)..(e - 1) : IsDigit(text[j])
        /\ e = Len(text) + 1 \/ ~IsDigit(text[e])

\* the positions where /\[(\d+)\]/g matches; two matches never overlap
CitationStarts(text) ==
    {k \in 1..Len(text) :
        /\ text[k] = "["
        /\ LET e == DigitsEnd(text, k)
           IN  e > k + 1 /\ e <= Len(text) /\ text[e] = "]"}

\* extractCitations: the numbers of the matches in text order, each kept at
\* its first occurrence, then sorted
extractCitations(text) ==
    LET starts == Ascending(CitationStarts(text))
        nums == Tuple([m \in 1..Len(starts) |->
                          parseInt(SubSeq(text, starts[m] + 1,
                                          DigitsEnd(text, starts[m]) - 1))],
                      Len(starts))
        firsts == {m \in 1..Len(nums) : \A l \in 1..(m - 1) : nums[l] # nums[m]}
    IN  Ascending({nums[m] : m \in firsts})

\* a variant that accepts the number 0
IsValidCitationFromZero(citation, sourceCount) ==
    citation >= 0 /\ citation <= sourceCount

IsValidCitation(citation, sourceCount) == citation >= 1 /\ citation <= sourceCount

validateCitations(citations, sourceCount) ==
    [valid |-> SelectSeq(citations, LAMBDA c : IsValidCitation(c, sourceCount)),
     invalid |-> SelectSeq(citations, LAMBDA c : ~IsValidCitation(c, sourceCount))]

\* a variant that rounds down
FloorPercent(x, y) == (100 * x) \div y

\* Math.round((x / y) * 100) for 0 <= x <= y: halves round up.  The double
\* computation gives this value for every y below 40 (23/40 is the first
\* quotient whose product falls under the half).
RoundPercent(x, y) == (200 * x + y) \div (2 * y)

\* a variant that counts every cited number
coverageOfAllCitations(citations, sourceCount) ==
    IF sourceCount = 0 THEN 0
    ELSE RoundPercent(Len(citations), sourceCount)

calculateCitationCoverage(citations, sourceCount) ==
    IF sourceCount = 0 THEN 0
    ELSE LET uniqueCitations == {citations[k] : k \in 1..Len(citations)}
             validCitations ==
                 {c \in uniqueCitations : c >= 1 /\ c <= sourceCount}
         IN  RoundPercent(Cardinality(validCitations), sourceCount)

ShortLength == 100
LongLength == 1000

\* a variant that also counts a text of exactly ShortLength characters
TooShortInclusive(responseText) == Len(responseText) <= ShortLength

TooShort(responseText) == Len(responseText) < ShortLength

TooLong(responseText) == Len(responseText) > LongLength

\* the messages pushed to issues, without their interpolated numbers
LacksCitations == "Response lacks citations despite having search sources"
InvalidNumbers == "Invalid citation numbers"
LowCoverage == "Low citation coverage"
SomeInvalid == "Some citations are invalid"
UnusuallyShort == "Response is unusually short given available sources"
LongWithout == "Long response without citations despite having sources"

\* a faulty variant: the penalty is charged without an issue
CheckSilently(r, cond, message, penalty) ==
    IF cond THEN [issues |-> r.issues, score |-> r.score - penalty] ELSE r

\* one `if (cond) { issues.push(message); score -= penalty; }` of the function
Check(r, cond, message, penalty) ==
    IF cond
    THEN [issues |-> Append(r.issues, message), score |-> r.score - penalty]
    ELSE r

checkResponseQuality(responseText, sources) ==
    LET sourceCount == Len(sources)
        citations == extractCitations(responseText)
        v == validateCitations(citations, sourceCount)
        coverage == calculateCitationCoverage(citations, sourceCount)
        citationValidity ==
            IF Len(citations) > 0
            THEN RoundPercent(Len(v.valid), Len(citations))
            ELSE 0
        r0 == [issues |-> <<>>, score |-> 100]
        r1 == Check(r0, sourceCount > 0 /\ Len(citations) = 0, LacksCitations, 40)
        r2 == Check(r1, Len(v.invalid) > 0, InvalidNumbers, 20)
        r3 == Check(r2, sourceCount > 0 /\ coverage < 50, LowCoverage, 15)
        r4 == Check(r3, citationValidity < 100 /\ Len(citations) > 0, SomeInvalid, 10)
        r5 == Check(r4, TooShort(responseText) /\ sourceCount > 0, UnusuallyShort, 10)
        r6 == Check(r5, TooLong(responseText) /\ Len(citations) = 0 /\ sourceCount > 0,
                    LongWithout, 20)
        score == Max(0, r6.score)
    IN  [isValid |-> Len(r6.issues) = 0 /\ score >= 70,
         score |-> score,
         issues |-> r6.issues,
         citationCoverage |-> coverage,
         citationValidity |-> citationValidity]

\* checkResponseQuality(responseText, sources) is called and returns
QcCall ==
    /\ qcPc = "start"
    /\ qcPc' = "returned"
    /\ qcOut' = checkResponseQuality(qcText, qcSources)
    /\ UNCHANGED <<env, query, anPc, anReply, analysis, agPc, mhVars, wsVars,
                   genVars, events, rrVars, qcText, qcSources, xtVars>>

----------------------------------------------------------------------------
(* A call of checkResponseQuality(responseText, sources) *)

MaxPieces == 3
MaxSources == 3

\* fragments of a response: citations of 1, 2, 3, 0, 01 and 12, brackets that
\* are no citation, and a letter
Pieces ==
    {<<"[","1","]">>, <<"[","2","]">>, <<"[","3","]">>, <<"[","0","]">>,
     <<"[","0","1","]">>, <<"[","1","2","]">>, <<"[","1">>, <<"[","]">>, <<"a">>}

\* the texts made of at most n fragments
RECURSIVE TextsOf(_)
TextsOf(n) ==
    IF n = 0 THEN {<<>>}
    ELSE TextsOf(n - 1) \cup {t \o p : t \in TextsOf(n - 1), p \in Pieces}

\* filler lengths that put the text around the two length thresholds
Paddings == {0, ShortLength - 5, LongLength - 5}

Responses == {t \o Rep(".", n) : t \in TextsOf(MaxPieces), n \in Paddings}

InitQc ==
    /\ env = "none"
    /\ query = <<>>
    /\ anPc = "none"
    /\ anReply = NoValue
    /\ analysis = NoValue
    /\ agPc = "none"
    /\ mhPc = "idle"
    /\ tasks = <<>>
    /\ i = 0
    /\ searchQuery = <<>>
    /\ firstResp = NoValue
    /\ allResults = <<>>
    /\ executedTasks = <<>>
    /\ taskResults = <<>>
    /\ hasMockSearch = "false"
    /\ mhResult = NoValue
    /\ wsPc = "idle"
    /\ wsQuery = <<>>
    /\ wsResp = NoValue
    /\ calls = 0
    /\ mockSeen = "false"
    /\ genPc = "none"
    /\ fullText = <<>>
    /\ events = <<>>
    /\ rrPc = "none"
    /\ rrIn = <<>>
    /\ rrQuery = <<>>
    /\ rrOut = NoValue
    /\ qcPc = "start"
    /\ qcText \in Responses
    /\ \E n \in 0..MaxSources : qcSources = MkResults(0, n)
    /\ qcOut = NoValue
    /\ IdleXt

NextQc == QcCall

SpecQc == InitQc /\ [][NextQc]_vars

----------------------------------------------------------------------------
(* App.tsx: handleSearch in agent mode and the callbacks it hands to          *)
(* agentSearch. The queries are those for which shouldUseAgentMode is true.   *)

MaxQueries == 3
MaxDelivered == 2

\* the answers generation completes with: "a[1]", "a[3]", "a" and a long one
AppTexts ==
    {<<"a","[","1","]">>, <<"a","[","3","]">>, <<"a">>,
     <<"[","1","]">> \o Rep(".", ShortLength)}

\* line 822 as written: the `sources` of the render handleSearch was created in
ClosureSources == apClosure

\* lines 744-765: handleSearch(query) up to the call of agentSearch; the
\* function was created by the render that was current when the query was
\* submitted, and `sources` in it and in the callbacks it creates is that
\* render's value, which setSources([]) does not change
ApHandleSearch ==
    /\ apPc \in {"none", "idle"}
    /\ apRun < MaxQueries
    /\ apClosure' = apSources
    /\ apSources' = <<>>
    /\ apDelivered' = <<>>
    /\ apRun' = apRun + 1
    /\ apPc' = "running"
    /\ UNCHANGED <<coreVars, lgVars, psVars, apText, apPosts, qualityWarning>>

\* lines 785-787: onSourcesUpdate(newSources)
ApSourcesUpdate ==
    /\ apPc = "running"
    /\ \E n \in 0..MaxDelivered :
        /\ apSources' = MkResults(apRun, n)
        /\ apDelivered' = MkResults(apRun, n)
    /\ apPc' = "sourced"
    /\ UNCHANGED <<coreVars, lgVars, psVars, apRun, apClosure, apText, apPosts, qualityWarning>>

\* lines 820-848: onComplete(fullText) up to its first await
ApComplete ==
    /\ apPc = "sourced"
    /\ \E text \in AppTexts : apText' = text
    /\ IF Len(ClosureSources) > 0
       THEN /\ apPosts' = Append(apPosts, [run |-> apRun, responseText |-> apText',
                                           sources |-> ClosureSources])
            /\ apPc' = "checking"
            /\ UNCHANGED qualityWarning
       ELSE /\ qualityWarning' = "null"
            /\ apPc' = "suggesting"
            /\ UNCHANGED apPosts
    /\ UNCHANGED <<coreVars, lgVars, psVars, apRun, apSources, apClosure, apDelivered>>

\* lines 835-842: the endpoint answers with the QualityCheckResult of the body
ApQualityAnswered ==
    /\ apPc = "checking"
    /\ LET body == apPosts[Len(apPosts)]
           qualityCheck == checkResponseQuality(body.responseText, body.sources)
       IN  qualityWarning' =
               IF ~qualityCheck.isValid /\ Len(qualityCheck.issues) > 0
               THEN qualityCheck.issues[1]
               ELSE "null"
    /\ apPc' = "suggesting"
    /\ UNCHANGED <<coreVars, lgVars, psVars, apRun, apSources, apClosure, apDelivered, apText, apPosts>>

\* lines 835 and 843-845: the answer is not ok, or fetch rejects
ApQualityFails ==
    /\ apPc = "checking"
    /\ apPc' = "suggesting"
    /\ UNCHANGED <<coreVars, lgVars, psVars, apRun, apSources, apClosure, apDelivered, apText, apPosts,
                   qualityWarning>>

\* lines 850-872: the message is stored and the follow-up suggestions arrive
ApSuggested ==
    /\ apPc = "suggesting"
    /\ apPc' = "idle"
    /\ UNCHANGED <<coreVars, lgVars, psVars, apRun, apSources, apClosure, apDelivered, apText, apPosts,
                   qualityWarning>>

\* lines 873-879: onError(err), before or after the sources were delivered
ApError ==
    /\ apPc \in {"running", "sourced"}
    /\ apPc' = "idle"
    /\ UNCHANGED <<coreVars, lgVars, psVars, apRun, apSources, apClosure, apDelivered, apText, apPosts,
                   qualityWarning>>

\* lines 1032-1044: handleNewConversation
ApNewConversation ==
    /\ apPc = "idle"
    /\ Len(apSources) > 0 \/ qualityWarning # "null"
    /\ apSources' = <<>>
    /\ qualityWarning' = "null"
    /\ UNCHANGED <<coreVars, lgVars, psVars, apPc, apRun, apClosure, apDelivered, apText, apPosts>>

InitAp ==
    /\ IdleCore
    /\ IdleXt

NextAp ==
    \/ ApHandleSearch \/ ApSourcesUpdate \/ ApComplete
    \/ ApQualityAnswered \/ ApQualityFails \/ ApSuggested \/ ApError
    \/ ApNewConversation

SpecAp == InitAp /\ [][NextAp]_vars

----------------------------------------------------------------------------
(* server/utils/logger.ts: Logger *)

maxEvents == 1000
MaxLogged == 1003

EventTypes == <<"search_started", "search_succeeded", "llm_failed">>

\* the event of the k-th log call; seq stands for the caller's payload and the
\* timestamp
LoggedEvent(k) == [type |-> EventTypes[(k % 3) + 1], seq |-> k]

\* line 20: this.events.shift()
Shift(list) == Tail(list)

\* lines 16-21: the list after log(event)
Logged(list, event) ==
    LET pushed == Append(list, event)
    IN  IF Len(pushed) > maxEvents THEN Shift(pushed) ELSE pushed

\* lines 10-21: log(event)
LgLog ==
    /\ lgPc = "idle"
    /\ lgLogged < MaxLogged
    /\ lgLogged' = lgLogged + 1
    /\ lgEvents' = Logged(lgEvents, LoggedEvent(lgLogged + 1))
    /\ UNCHANGED <<coreVars, apVars, psVars, lgPc, lgView>>

\* a faulty variant: return this.events
SameArray(list) == [ref |-> "this.events", items |-> list]

\* line 38: [...this.events] is a new array of the same elements
Spread(list) == [ref |-> "fresh", items |-> list]

\* line 36: this.events.filter(e => e.type === type) is a new array
Filter(list, type) ==
    [ref |-> "fresh", items |-> SelectSeq(list, LAMBDA e : e.type = type)]

\* lines 34-39: getEvents(type?)
getEvents(type) ==
    IF Truthy(type) THEN Filter(lgEvents, type) ELSE Spread(lgEvents)

\* a caller takes the list, whole or of one type
LgGetEvents ==
    /\ lgPc = "idle"
    /\ \E type \in {"undefined", "search_started", "llm_failed"} :
           lgView' = getEvents(type)
    /\ lgPc' = "holding"
    /\ UNCHANGED <<coreVars, apVars, psVars, lgEvents, lgLogged>>

\* what a caller can do to an array: push, shift, length = 0
Mutations(items) ==
    {Append(items, [type |-> "forged", seq |-> 0]), <<>>}
        \cup (IF Len(items) > 0 THEN {Tail(items)} ELSE {})

\* the caller changes the array it was given; an array that is this.events
\* changes the logger's list with it
LgCallerMutates ==
    /\ lgPc = "holding"
    /\ \E items \in Mutations(lgView.items) :
        /\ lgView' = [lgView EXCEPT !.items = items]
        /\ lgEvents' = IF lgView.ref = "this.events" THEN items ELSE lgEvents
    /\ lgPc' = "mutated"
    /\ UNCHANGED <<coreVars, apVars, psVars, lgLogged>>

\* the caller lets go of the array
LgRelease ==
    /\ lgPc \in {"holding", "mutated"}
    /\ lgPc' = "idle"
    /\ lgView' = NoView
    /\ UNCHANGED <<coreVars, apVars, psVars, lgEvents, lgLogged>>

InitLg ==
    /\ IdleCore
    /\ IdleXt

NextLg == LgLog \/ LgGetEvents \/ LgCallerMutates \/ LgRelease

SpecLg == InitLg /\ [][NextLg]_vars

----------------------------------------------------------------------------
(* server/services/searchService.ts: buildSearchQuery, mockSearch and         *)
(* performSearch                                                              *)

SearchQueryLimit == 120
maxChars == 110
LongWord == 6
MinSpace == 60
MaxPsResults == 2

\* lines 43-52
STOPWORDS ==
    {<<"t","h","e">>, <<"a">>, <<"a","n">>, <<"a","n","d">>, <<"o","r">>,
     <<"b","u","t">>, <<"o","f">>, <<"f","o","r">>, <<"t","o">>, <<"i","n">>,
     <<"o","n">>, <<"a","t">>, <<"b","y">>, <<"w","i","t","h">>,
     <<"a","b","o","u","t">>, <<"i","n","t","o">>, <<"t","h","r","o","u","g","h">>,
     <<"o","v","e","r">>, <<"b","e","t","w","e","e","n">>, <<"i","s">>,
     <<"a","r","e">>, <<"w","a","s">>, <<"w","e","r","e">>, <<"b","e">>,
     <<"b","e","i","n","g">>, <<"b","e","e","n">>, <<"h","o","w">>,
     <<"w","h","a","t">>, <<"w","h","e","n">>, <<"w","h","e","r","e">>,
     <<"w","h","y">>, <<"w","h","i","c","h">>, <<"w","h","o">>,
     <<"w","o","u","l","d">>, <<"c","o","u","l","d">>, <<"s","h","o","u","l","d">>,
     <<"c","a","n">>, <<"w","i","l","l">>, <<"d","o">>, <<"d","o","e","s">>,
     <<"d","i","d">>, <<"t","h","a","t">>, <<"t","h","i","s">>,
     <<"t","h","e","s","e">>, <<"t","h","o","s","e">>, <<"w","i","t","h","i","n">>,
     <<"w","i","t","h","o","u","t">>, <<"t","h","e","n">>, <<"t","h","a","n">>}

\* lines 72-79: the words taken while the length stays within maxChars
RECURSIVE SelectWords(_, _, _)
SelectWords(baseWords, selected, lengthSoFar) ==
    IF baseWords = <<>> THEN selected
    ELSE LET w == Head(baseWords)
             extra == IF Len(selected) = 0 THEN Len(w) ELSE Len(w) + 1
         IN  IF lengthSoFar + extra > maxChars THEN selected
             ELSE SelectWords(Tail(baseWords), Append(selected, w),
                              lengthSoFar + extra)

\* lines 85-87 and 92-94: the cut at 120 code units, at the last space if it
\* lies beyond index 60
SafeCut(s) ==
    LET cut == Substring0(s, SearchQueryLimit)
        lastSpace == LastIndexOf(cut, " ")
    IN  Trim(IF lastSpace > MinSpace THEN Substring0(cut, lastSpace) ELSE cut)

\* lines 33-98
buildSearchQuery(originalQuery) ==
    LET trimmed == Trim(originalQuery)
        words == SplitWs(trimmed)
        importantWords ==
            SelectSeq(words, LAMBDA w : ToLower(w) \notin STOPWORDS \/ Len(w) > LongWord)
        baseWords == IF Len(importantWords) > 0 THEN importantWords ELSE words
        joined == Trim(Join(SelectWords(baseWords, <<>>, 0), <<" ">>))
        condensed == IF Len(joined) > SearchQueryLimit THEN SafeCut(joined) ELSE joined
    IN  IF Len(trimmed) <= SearchQueryLimit THEN trimmed
        ELSE IF condensed = <<>> THEN SafeCut(trimmed)
        ELSE condensed

\* lines 252-299: mockSearch(query) of the server; the entries are those of the
\* client's mock-1 to mock-4, searchTime is left out
ServerMockResponse(q) ==
    [results |-> Slice0(<<Mock1(q), Mock2(q), Mock3(q)>>
                        \o (IF \E w \in TechWords : Includes(ToLower(q), w)
                            THEN <<Mock4(q)>> ELSE <<>>),
                        DirectLimit),
     query |-> q,
     engine |-> "mock",
     isMockSearch |-> "true"]

\* logger.log({ type, ... }) as performSearch and the providers call it
PsLog(types) ==
    /\ lgEvents' = Logged(lgEvents, [type |-> types, seq |-> lgLogged + 1])
    /\ lgLogged' = lgLogged + 1

\* lines 353-365: the mock fallback; encodeURIComponent throws URIError on a
\* lone surrogate, and the call stands in no try block
PsFallback(tried) ==
    /\ psTried' = Append(tried, "mock")
    /\ IF IsWellFormed(psQuery)
       THEN /\ psOut' = ServerMockResponse(psQuery)
            /\ psPc' = "returned"
       ELSE /\ psOut' = [error |-> "URIError"]
            /\ psPc' = "rejected"

\* lines 304-321 and 332-338: performSearch(query) up to its first await
PsCall ==
    /\ psPc = "start"
    /\ IF psKeys.brave
       THEN /\ psPc' = "brave"
            /\ psTried' = <<"brave">>
            /\ PsLog("search_started")
            /\ UNCHANGED psOut
       ELSE IF psKeys.serp
       THEN /\ psPc' = "serp"
            /\ psTried' = <<"serp">>
            /\ PsLog("search_started")
            /\ UNCHANGED psOut
       ELSE /\ PsFallback(<<>>)
            /\ lgEvents' = IF IsWellFormed(psQuery)
                           THEN Logged(Logged(lgEvents,
                                    [type |-> "search_started", seq |-> lgLogged + 1]),
                                    [type |-> "search_succeeded", seq |-> lgLogged + 2])
                           ELSE Logged(lgEvents,
                                    [type |-> "search_started", seq |-> lgLogged + 1])
            /\ lgLogged' = IF IsWellFormed(psQuery) THEN lgLogged + 2 ELSE lgLogged + 1
    /\ UNCHANGED <<coreVars, apVars, lgPc, lgView, psQuery, psKeys>>

\* the response of a provider to the engine query, searchTime left out
ProviderResponse(engine, n) ==
    [results |-> [k \in 1..n |-> <<engine, k>>],
     query |-> buildSearchQuery(psQuery),
     engine |-> engine,
     isMockSearch |-> "false"]

\* lines 321-328 (and 149-162): searchWithBrave resolves
PsBraveSucceeds ==
    /\ psPc = "brave"
    /\ \E n \in 0..MaxPsResults :
           psOut' = [ProviderResponse("brave", n) EXCEPT !.query = psQuery]
    /\ psPc' = "returned"
    /\ PsLog("search_succeeded")
    /\ UNCHANGED <<coreVars, apVars, lgPc, lgView, psQuery, psKeys, psTried>>

\* the step after a provider has failed, with its search_failed logged
PsNext(next) ==
    IF next = "serp"
    THEN /\ psPc' = "serp"
         /\ psTried' = Append(psTried, "serp")
         /\ PsLog("search_failed")
         /\ UNCHANGED psOut
    ELSE /\ PsFallback(psTried)
         /\ lgEvents' = IF IsWellFormed(psQuery)
                        THEN Logged(Logged(lgEvents,
                                 [type |-> "search_failed", seq |-> lgLogged + 1]),
                                 [type |-> "search_succeeded", seq |-> lgLogged + 2])
                        ELSE Logged(lgEvents,
                                 [type |-> "search_failed", seq |-> lgLogged + 1])
         /\ lgLogged' = IF IsWellFormed(psQuery) THEN lgLogged + 2 ELSE lgLogged + 1

\* lines 329-338 and 353 (and 163-173): searchWithBrave rejects
PsBraveFails ==
    /\ psPc = "brave"
    /\ PsNext(IF psKeys.serp THEN "serp" ELSE "mock")
    /\ UNCHANGED <<coreVars, apVars, lgPc, lgView, psQuery, psKeys>>

\* lines 338-345 (and 222-235): searchWithSerpAPI resolves
PsSerpSucceeds ==
    /\ psPc = "serp"
    /\ \E n \in 0..MaxPsResults :
           psOut' = [ProviderResponse("serpapi", n) EXCEPT !.query = psQuery]
    /\ psPc' = "returned"
    /\ PsLog("search_succeeded")
    /\ UNCHANGED <<coreVars, apVars, lgPc, lgView, psQuery, psKeys, psTried>>

\* lines 346-353 (and 236-246): searchWithSerpAPI rejects
PsSerpFails ==
    /\ psPc = "serp"
    /\ PsNext("mock")
    /\ UNCHANGED <<coreVars, apVars, lgPc, lgView, psQuery, psKeys>>

\* "how " + 60 x + " the " + 60 y + " end": 133 code units
QLongQuestion ==
    <<"h","o","w"," ">> \o Rep("x", 60) \o <<" ","t","h","e"," ">> \o Rep("y", 60)
        \o <<" ","e","n","d">>

\* one word of 121 code units
QOneWord == Rep("z", SearchQueryLimit + 1)

\* " React hooks ": spaces at both ends
QPadded == <<" ">> \o TShort \o <<" ">>

PsQueries == {QCompare, QWhat, QLone, QLongQuestion, QOneWord, QPadded}

\* process.env.BRAVE_SEARCH_KEY and process.env.SERPAPI_KEY are set or not
PsEnvs == [brave : BOOLEAN, serp : BOOLEAN]

InitPs ==
    /\ IdleCore
    /\ IdleAp
    /\ IdleLg
    /\ psPc = "start"
    /\ psQuery \in PsQueries
    /\ psKeys \in PsEnvs
    /\ psTried = <<>>
    /\ psOut = NoValue

NextPs == PsCall \/ PsBraveSucceeds \/ PsBraveFails \/ PsSerpSucceeds \/ PsSerpFails

SpecPs == InitPs /\ [][NextPs]_vars

----------------------------------------------------------------------------
(* Properties of executeMultiHopSearch *)

Complex == Truthy(analysis.needsMultiStep)

\* the events of one type, in order
EventsOf(type) == SelectSeq(events, LAMBDA e : e.type = type)


\* C1: on the complex route a rejected search call of one task does not fail the
\* run: the run goes on and returns a MultiHopResult that lists every task.
C1_FailedHopContinues ==
    (Complex /\ wsPc = "rejected") =>
        /\ mhPc # "rejected"
        /\ (mhPc = "returned" => Len(mhResult.executionPlan) = Len(tasks))

\* C2: on the complex route, once the run over a plan of N tasks has ended,
\* onProgress has been invoked once per task, with steps 1..N in order and
\* totalSteps = N, each after the requests of its own task and before the
\* requests of the next.
C2_ProgressOncePerTask ==
    (Complex /\ mhPc \in {"returned", "rejected"}) =>
        LET prog == EventsOf("progress")
        IN  /\ Len(prog) = Len(tasks)
            /\ \A k \in 1..Len(prog) : prog[k].step = k /\ prog[k].total = Len(tasks)
            /\ \A a, b \in 1..Len(events) :
                (events[a].type = "request" /\ events[b].type = "progress") =>
                    (a < b <=> events[a].step <= events[b].step)

\* C4: every MultiHopResult has a non-empty executionPlan.
C4_PlanNonEmpty ==
    mhPc = "returned" => Len(mhResult.executionPlan) >= 1

\* C5: every MultiHopResult has at most 10 finalResults.
C5_FinalResultsBounded ==
    mhPc = "returned" => Len(mhResult.finalResults) <= FinalLimit

\* C6: in every MultiHopResult allResults is the concatenation, in
\* executionPlan order, of the lists recorded for the executed tasks: on the
\* complex route the lists passed to onProgress, on the simple route the
\* results of the search whose query the single task carries.
C6_AllResultsIsConcatenation ==
    mhPc = "returned" =>
        IF Complex
        THEN LET prog == EventsOf("progress")
             IN  /\ Len(prog) = Len(mhResult.executionPlan)
                 /\ \A k \in 1..Len(prog) :
                        prog[k].task = mhResult.executionPlan[k]
                 /\ mhResult.allResults =
                        Concat([k \in 1..Len(prog) |-> prog[k].results])
        ELSE /\ Len(mhResult.executionPlan) = 1
             /\ \A k \in 1..Len(mhResult.allResults) :
                    \E e \in 1..Len(events) :
                        /\ events[e].type = "request"
                        /\ events[e].call = mhResult.allResults[k][1]
                        /\ events[e].query = mhResult.executionPlan[1].searchQuery
                        /\ mhResult.allResults[k][2] = k

\* a complex run has returned after every task recorded results and one of them
\* needed its retry
C6_Witness ==
    /\ mhPc = "returned"
    /\ Complex
    /\ Len(mhResult.executionPlan) = MaxTasks
    /\ \A k \in 1..MaxTasks : taskResults[k - 1] # <<>>
    /\ calls > MaxTasks

----------------------------------------------------------------------------
(* Properties of agentSearch *)

\* C3: agentSearch settles every error a stage raises to it: at any moment at
\* most one onError has been delivered, never without an error raised before
\* it, and once the call has resolved every raised error has been reported by
\* exactly one onError.
C3_ErrorsReportedOnce ==
    LET raised == EventsOf("raised")
        reported == EventsOf("onError")
    IN  /\ Len(reported) <= 1
        /\ Len(reported) <= Len(raised)
        /\ agPc = "done" => Len(reported) = Len(raised)

\* the call has resolved after a search of the multi-hop route threw and
\* onError reported it
C3_Witness ==
    /\ agPc = "done"
    /\ mhPc = "rejected"
    /\ wsPc = "rejected"
    /\ Len(EventsOf("onError")) = 1

----------------------------------------------------------------------------
(* Properties of analyzeQuery *)

\* C7: when the generation-service call fails or its reply is malformed JSON,
\* analyzeQuery returns what the marker heuristic gives for the query.
C7_FailureFallsBackToHeuristic ==
    (anPc = "returned" /\ anReply.kind \in {"error", "malformed"}) =>
        analysis = Heuristic(query)

\* C8: whatever the reply, analyzeQuery returns a complexity among simple,
\* moderate and complex and a boolean needsMultiStep.
C8_AnalysisWellTyped ==
    anPc = "returned" =>
        /\ analysis.complexity \in Complexities
        /\ analysis.needsMultiStep \in {"true", "false"}

----------------------------------------------------------------------------
(* Properties of rerankResults *)

\* the domain names a blacklisted domain, in any letter case
Blacklisted(domain) ==
    \E blacklisted \in DOMAIN_BLACKLIST : Includes(ToLower(domain), blacklisted)

C9_WitnessOnlyBlacklisted ==
    /\ rrPc = "returned"
    /\ rrOut = <<>>
    /\ Len(rrIn) = 1
    /\ Blacklisted(rrIn[1].domain)

\* the combined score the code computes for a result of the call
CombinedOf(result) ==
    CombinedScore(calculateQualityScore(result, rrQuery),
                  calculateRelevanceScore(result, rrQuery))

\* the position of a returned result in the input list
InputPosition(result) == CHOOSE k \in 1..Len(rrIn) : rrIn[k].id = result.id

\* C10: in the output of rerankResults no result is preceded by one with a
\* smaller combined score, and results with equal combined score are in their
\* input order.
C10_SortedByCombinedScoreStable ==
    rrPc = "returned" =>
        LET combined == Tuple([k \in 1..Len(rrOut) |-> CombinedOf(rrOut[k])],
                              Len(rrOut))
        IN  \A a, b \in 1..Len(rrOut) :
                a < b =>
                    /\ ~Greater(combined[b], combined[a])
                    /\ combined[a] = combined[b] =>
                           InputPosition(rrOut[a]) < InputPosition(rrOut[b])

\* the output holds two results of equal combined score but different quality
\* scores, and a result that was moved ahead of one that preceded it in the input
C10_Witness ==
    /\ rrPc = "returned"
    /\ \E a, b \in 1..Len(rrOut) :
        /\ a < b
        /\ CombinedOf(rrOut[a]) = CombinedOf(rrOut[b])
        /\ calculateQualityScore(rrOut[a], rrQuery)
               # calculateQualityScore(rrOut[b], rrQuery)
    /\ \E a, b \in 1..Len(rrOut) :
        /\ a < b
        /\ Greater(CombinedOf(rrOut[a]), CombinedOf(rrOut[b]))
        /\ InputPosition(rrOut[a]) > InputPosition(rrOut[b])

----------------------------------------------------------------------------
(* Properties of checkResponseQuality *)

\* the set of numbers the text cites
Cited == LET citations == extractCitations(qcText)
         IN  {citations[k] : k \in 1..Len(citations)}

\* C11: for every text and every list of sources the returned score,
\* citationCoverage and citationValidity are integers between 0 and 100.
C11_ScoresArePercentages ==
    qcPc = "returned" =>
        /\ qcOut.score \in 0..100
        /\ qcOut.citationCoverage \in 0..100
        /\ qcOut.citationValidity \in 0..100

\* a call that returned a lowered score, a partial coverage and a partial validity
C11_Witness ==
    /\ qcPc = "returned"
    /\ qcOut.score \in 1..99
    /\ qcOut.citationCoverage \in 1..99
    /\ qcOut.citationValidity \in 1..99

\* the sum of the penalties the score rules name for this text and these sources
Penalties ==
    LET n == Len(qcSources)
    IN  (IF n > 0 /\ Cited = {} THEN 40 ELSE 0)
        + (IF \E c \in Cited : c \notin 1..n THEN 20 ELSE 0)
        + (IF n > 0 /\ qcOut.citationCoverage < 50 THEN 15 ELSE 0)
        + (IF Cited # {} /\ qcOut.citationValidity < 100 THEN 10 ELSE 0)
        + (IF Len(qcText) < ShortLength /\ n > 0 THEN 10 ELSE 0)
        + (IF Len(qcText) > LongLength /\ Cited = {} /\ n > 0 THEN 20 ELSE 0)

\* C12: the score is 100 minus the sum of the applicable penalties (40 no
\* citation although sources exist, 20 some cited number invalid, 15 coverage
\* under 50 with sources, 10 validity under 100 with citations, 10 text under
\* 100 characters with sources, 20 text over 1000 characters without citation
\* with sources), clamped to 0..100; with no source and no citation the score
\* is 100, isValid is true and the coverage is 0.
C12_ScoreIsHundredMinusPenalties ==
    qcPc = "returned" =>
        /\ qcOut.score = Max(0, Min(100, 100 - Penalties))
        /\ (Len(qcSources) = 0 /\ Cited = {}) =>
               /\ qcOut.score = 100
               /\ qcOut.isValid
               /\ qcOut.citationCoverage = 0

\* a call with sources whose text has exactly 100 characters and that was
\* charged the invalid-number, coverage and validity penalties together
C12_Witness ==
    /\ qcPc = "returned"
    /\ Len(qcSources) > 0
    /\ Len(qcText) = ShortLength
    /\ qcOut.score = 55

\* the integer nearest to 100 * a / b, the upper one of two equally near
Nearest(a, b) ==
    CHOOSE k \in 0..100 : (2 * k - 1) * b <= 200 * a /\ 200 * a < (2 * k + 1) * b

\* C13: a cited number n is valid exactly when 1 <= n <= len(sources);
\* citationCoverage is the rounded percentage of the sources that are cited
\* (0 without sources), citationValidity the rounded percentage of the distinct
\* cited numbers that are valid (0 without citation); a text that cites the
\* sources 1..len(sources) and nothing else has both at 100.
C13_CoverageAndValidity ==
    LET n == Len(qcSources)
        valid == Cited \cap 1..n
    IN  qcPc = "returned" =>
            /\ qcOut.citationCoverage =
                   IF n = 0 THEN 0 ELSE Nearest(Cardinality(valid), n)
            /\ qcOut.citationValidity =
                   IF Cited = {} THEN 0
                   ELSE Nearest(Cardinality(valid), Cardinality(Cited))
            /\ (InvalidNumbers \in {qcOut.issues[k] : k \in 1..Len(qcOut.issues)})
                   <=> (Cited \ valid # {})
            /\ (n > 0 /\ Cited = 1..n) =>
                   qcOut.citationCoverage = 100 /\ qcOut.citationValidity = 100

\* a call whose text cites two of three sources and one number that is no source
C13_Witness ==
    /\ qcPc = "returned"
    /\ Len(qcSources) = 3
    /\ Cardinality(Cited \cap 1..3) = 2
    /\ Cardinality(Cited) = 3
    /\ qcOut.citationCoverage = 67
    /\ qcOut.citationValidity = 67

\* C14: when the text cites a number outside 1..len(sources) (the number 0,
\* or any number when there is no source), issues holds the invalid-citation
\* message, the score is at most 80 and isValid is false.
C14_InvalidCitationFails ==
    (qcPc = "returned" /\ \E c \in Cited : c < 1 \/ c > Len(qcSources)) =>
        /\ \E k \in 1..Len(qcOut.issues) : qcOut.issues[k] = InvalidNumbers
        /\ qcOut.score <= 80
        /\ ~qcOut.isValid

\* a call with sources whose text cites the number 0 and no other invalid one
C14_Witness ==
    /\ qcPc = "returned"
    /\ Len(qcSources) > 0
    /\ 0 \in Cited
    /\ Cited \ {0} \subseteq 1..Len(qcSources)
    /\ qcOut.score <= 80

\* a call without sources whose text cites a number
C14_WitnessNoSources ==
    /\ qcPc = "returned"
    /\ Len(qcSources) = 0
    /\ Cited # {}
    /\ ~qcOut.isValid

\* C24: isValid is true exactly when the score is 100: every penalty records
\* an issue, so the threshold score >= 70 never decides, and the clamp at 0 is
\* never reached, the lowest score being 25.
C24_ValidIffFullScore ==
    qcPc = "returned" =>
        /\ qcOut.isValid <=> qcOut.score = 100
        /\ Len(qcOut.issues) = 0 <=> qcOut.score = 100
        /\ qcOut.score = 100 - Penalties
        /\ qcOut.score >= 25

\* a call that returned the lowest score
C24_Witness ==
    /\ qcPc = "returned"
    /\ qcOut.score = 25
    /\ ~qcOut.isValid

\* a call with sources that returned a valid response
C24_WitnessValid ==
    /\ qcPc = "returned"
    /\ Len(qcSources) > 0
    /\ qcOut.isValid

----------------------------------------------------------------------------
(* Properties of executeMultiHopSearch: scheduling of the requests *)

\* a webSearch call is awaiting its provider
Outstanding == wsPc \in {"backend", "direct"}

\* C15: during one run at most one provider request is outstanding: a request
\* is issued only when the one before it has settled, and the request of task
\* i+1 only after the first request and the retry of task i have settled and
\* task i is recorded.
C15_OneRequestOutstanding ==
    [][calls' = calls + 1 =>
          /\ ~Outstanding
          /\ (mhPc' = "hop_first") =>
                 /\ Len(executedTasks) = i
                 /\ events'[Len(events')].step = i + 1]_vars

\* the request of the second task is issued after the first task took a
\* first request and a retry
C15_Witness ==
    /\ mhPc = "hop_first"
    /\ i = 1
    /\ calls = 3
    /\ Outstanding

\* the steps of the requests issued so far, in order
RequestSteps ==
    LET requests == EventsOf("request")
    IN  [k \in 1..Len(requests) |-> requests[k].step]

C16_WitnessUnmet ==
    /\ Complex
    /\ mhPc = "hop_first"
    /\ i = 1
    /\ unmetDeps(tasks[i + 1]) # {}

\* C17: the hasMockSearch flag of the MultiHopResult is true exactly when
\* some search response received during the run, on either route and
\* counting the responses of retries, was flagged isMockSearch.
C17_MockFlagIsDisjunction ==
    mhPc = "returned" => (Truthy(mhResult.hasMockSearch) <=> Truthy(mockSeen))

----------------------------------------------------------------------------
(* Properties of the mock-search signal of agentSearch *)

\* the query of webSearch call number c
QueryOfCall(c) ==
    LET requests == EventsOf("request")
    IN  requests[CHOOSE k \in 1..Len(requests) : requests[k].call = c].query

\* the result is an entry of mockSearch that isMockResult flags as synthetic
FlaggedByFilter(result) ==
    /\ Len(result) = 3
    /\ LET q == QueryOfCall(result[1])
       IN  isMockResult(mockResults(q)[result[2]], q)

\* the sources of every onSourcesUpdate so far
SourcesShown == Concat([k \in 1..Len(EventsOf("onSourcesUpdate")) |->
                           EventsOf("onSourcesUpdate")[k].sources])

\* C18: the mock-search signal is the disjunction of the provider's
\* isMockSearch flag and the quality filter's detection: when a result handed
\* to the caller is one isMockResult flags as synthetic, onMockSearchDetected
\* has been called with true, even if no response carried isMockSearch.
C18_HeuristicMockIsSignalled ==
    (\E k \in 1..Len(SourcesShown) : FlaggedByFilter(SourcesShown[k])) =>
        \E e \in 1..Len(events) :
            /\ events[e].type = "onMockSearchDetected"
            /\ events[e].isMock = "true"

----------------------------------------------------------------------------
(* Properties of the routing of agentSearch *)

\* analyzeQuery has resolved and agentSearch holds its analysis
Analyzed == agPc \notin {"none", "start", "analyzing"}

\* planTasks has been called and has not settled yet
PlannerInvoked == agPc = "planning" \/ mhPc = "planning"

\* C19: whenever the analysis has needsMultiStep = false, whatever its
\* complexity, the simple route is followed: the planner is never invoked and
\* every provider request carries the original query; the planner is invoked
\* only when needsMultiStep = true.
C19_SimpleRouteWithoutPlanner ==
    (Analyzed /\ ~Truthy(analysis.needsMultiStep)) =>
        /\ ~PlannerInvoked
        /\ \A k \in 1..Len(EventsOf("request")) :
               EventsOf("request")[k].query = query

\* the events that follow the first failure of the planner
AfterPlannerFailure ==
    LET first == CHOOSE k \in 1..Len(events) :
                     /\ events[k] = Raised("planner")
                     /\ \A j \in 1..(k - 1) : events[j] # Raised("planner")
    IN  SubSeq(events, first + 1, Len(events))

\* C20: when the planner fails the pipeline halts for the query: exactly one
\* onError is emitted, and no provider request, onSourcesUpdate, generation
\* call, onToken or onComplete happens afterwards.
C20_PlannerFailureHalts ==
    (\E k \in 1..Len(events) : events[k] = Raised("planner")) =>
        /\ \A k \in 1..Len(AfterPlannerFailure) :
               AfterPlannerFailure[k].type \notin
                   {"request", "onSourcesUpdate", "onToken", "onComplete"}
        /\ genPc = "none"
        /\ Len(EventsOf("onError")) <= 1
        /\ (agPc = "done" => Len(EventsOf("onError")) = 1)
        /\ agPc \in {"multihop", "done"}

\* the planner failed inside executeMultiHopSearch, after agentSearch had
\* announced its own plan, and the run is over
C20_Witness ==
    /\ agPc = "done"
    /\ mhPc = "rejected"
    /\ \E k \in 1..Len(events) : events[k] = Raised("planner")
    /\ Len(EventsOf("onError")) = 1

\* the planner failed in agentSearch itself and the run is over
C20_WitnessFirstPlan ==
    /\ agPc = "done"
    /\ mhPc = "idle"
    /\ \E k \in 1..Len(events) : events[k] = Raised("planner")
    /\ Len(EventsOf("onError")) = 1

----------------------------------------------------------------------------
(* Properties of executeMultiHopSearch: the retries *)

\* the requests issued for step k, in order
RequestsOf(k) == SelectSeq(EventsOf("request"), LAMBDA e : e.step = k)

\* the first four words of more than two characters, joined by spaces
FirstFourWords(q) ==
    LET long == SelectSeq(Words(q), LAMBDA w : Len(w) > 2)
    IN  Join(SubSeq(long, 1, Min(4, Len(long))), <<" ">>)

\* C22: on the complex route a task issues at most two provider calls; the
\* retry is issued only when the first call returned no result, the bounded
\* query has more than 20 characters and its first four words of more than
\* two characters form a non-empty, different query; the task records the
\* retry's results and query only when the retry returned a result, and
\* otherwise keeps no result and its bounded query.
C22_RetryOncePerTask ==
    Complex =>
        /\ \A k \in 1..Len(tasks) : Len(RequestsOf(k)) <= 2
        /\ mhPc = "hop_retry" =>
               /\ Len(firstResp.results) = 0
               /\ Len(searchQuery) > 20
               /\ wsQuery = FirstFourWords(searchQuery)
               /\ wsQuery # searchQuery
               /\ Len(wsQuery) > 0
        /\ \A k \in 1..Len(executedTasks) :
               LET requests == RequestsOf(k)
                   recorded == taskResults[executedTasks[k].id]
                   adopted == requests[IF recorded # <<>> THEN Len(requests) ELSE 1]
               IN  /\ Len(requests) \in {1, 2}
                   /\ requests[1].query = BoundQuery(tasks[k].searchQuery)
                   /\ executedTasks[k].searchQuery = adopted.query
                   /\ \A r \in 1..Len(recorded) : recorded[r][1] = adopted.call

\* a task was retried without result and kept its bounded query
C22_Witness ==
    /\ Complex
    /\ Len(executedTasks) >= 1
    /\ Len(RequestsOf(1)) = 2
    /\ taskResults[executedTasks[1].id] = <<>>
    /\ executedTasks[1].searchQuery # RequestsOf(1)[2].query

\* a task was retried with result and took over the retry's query
C22_WitnessAdopted ==
    /\ Complex
    /\ Len(executedTasks) >= 1
    /\ Len(RequestsOf(1)) = 2
    /\ taskResults[executedTasks[1].id] # <<>>
    /\ executedTasks[1].searchQuery = RequestsOf(1)[2].query

\* the text before the first ":" or "?", without the spaces around it
BeforeMark(q) ==
    LET marks == {k \in 1..Len(q) : q[k] \in {":", "?"}}
    IN  IF marks = {} THEN Trim(q)
        ELSE Trim(SubSeq(q, 1, (CHOOSE k \in marks : \A m \in marks : k <= m) - 1))

\* C23: on the simple route one search is issued with the original query
\* and, exactly when it returns no result and the text before the first ":"
\* or "?" is non-empty and differs from the query, one retry with that text;
\* the executionPlan returned has the single task task_0 whose searchQuery is
\* the query whose results are returned, and finalResults equals allResults.
C23_SimpleRouteRetriesOnce ==
    (~Complex /\ mhPc # "start") =>
        LET requests == EventsOf("request")
            retryable == BeforeMark(query) # query /\ Len(BeforeMark(query)) > 0
        IN  /\ Len(requests) \in {1, 2}
            /\ requests[1].query = query
            /\ Len(requests) = 2 =>
                   /\ retryable
                   /\ Len(firstResp.results) = 0
                   /\ requests[2].query = BeforeMark(query)
            /\ mhPc = "returned" =>
                   LET plan == mhResult.executionPlan
                       results == mhResult.finalResults
                   IN  /\ Len(plan) = 1
                       /\ plan[1].id = 0
                       /\ mhResult.allResults = results
                       /\ \E c \in 1..Len(requests) :
                              /\ plan[1].searchQuery = requests[c].query
                              /\ \A r \in 1..Len(results) :
                                     results[r][1] = requests[c].call
                       /\ results = <<>> => plan[1].searchQuery = query
                       /\ (results = <<>> /\ retryable) => Len(requests) = 2

\* a run of the simple route returned the results of its retry
C23_Witness ==
    /\ ~Complex
    /\ mhPc = "returned"
    /\ Len(EventsOf("request")) = 2
    /\ Len(mhResult.finalResults) > 0
    /\ mhResult.executionPlan[1].searchQuery # query

----------------------------------------------------------------------------
(* Properties of the event order of agentSearch *)

\* the plan announcements of agentSearch: onProgress(`Planned N search steps`)
Announcements ==
    SelectSeq(events, LAMBDA e : e.type = "onProgress" /\ "label" \in DOMAIN e
                                 /\ e.label = "planned")

\* the per-step progress events agentSearch forwards from the engine
StepProgress ==
    SelectSeq(events, LAMBDA e : e.type = "onProgress" /\ "step" \in DOMAIN e)

\* C25: in a run of agentSearch on the complex route the announced number of
\* steps is the totalSteps of every per-step progress event, whichever plans
\* the planner returns.
C25_AnnouncedPlanIsExecuted ==
    \A a \in 1..Len(Announcements) : \A b \in 1..Len(StepProgress) :
        Announcements[a].n = StepProgress[b].total

\* onComplete and onError
Terminal == {"onComplete", "onError"}

\* what may not follow the terminal notification
Reported == {"onToken", "onSourcesUpdate", "onProgress", "onToolCall",
             "onStepResults", "onStepComplete", "onMockSearchDetected",
             "onComplete", "onError"}

\* C26: every run of agentSearch ends with exactly one terminal notification,
\* onComplete or onError and never both, and no onToken, onSourcesUpdate or
\* step event is emitted after it.
C26_OneTerminalNotification ==
    /\ Len(SelectSeq(events, LAMBDA e : e.type \in Terminal)) <= 1
    /\ agPc = "done" => Len(SelectSeq(events, LAMBDA e : e.type \in Terminal)) = 1
    /\ \A k \in 1..Len(events) : events[k].type \in Terminal =>
           \A j \in (k + 1)..Len(events) : events[j].type \notin Reported

\* a run ended with onComplete after tokens, and sources, were delivered
C26_Witness ==
    /\ agPc = "done"
    /\ Len(EventsOf("onComplete")) = 1
    /\ Len(EventsOf("onToken")) = MaxChunks
    /\ Len(EventsOf("onStepComplete")) >= 1

\* a run ended with onError after a token was delivered
C26_WitnessError ==
    /\ agPc = "done"
    /\ Len(EventsOf("onError")) = 1
    /\ Len(EventsOf("onToken")) >= 1

\* the tokens delivered so far, concatenated in delivery order
Delivered ==
    Concat([k \in 1..Len(EventsOf("onToken")) |-> EventsOf("onToken")[k].token])

\* C27: the text passed to onComplete is the concatenation, in delivery order,
\* of the tokens passed to onToken; when the stream fails part-way onError is
\* called, onComplete is not, and the tokens delivered stay delivered.
C27_CompleteTextIsTokens ==
    /\ [](\A k \in 1..Len(events) :
             events[k].type = "onComplete" => events[k].text = Delivered)
    /\ []((genPc = "done" /\ Len(EventsOf("onError")) >= 1) =>
             Len(EventsOf("onComplete")) = 0)
    /\ [][genPc = "streaming" /\ genPc' = "done" =>
             /\ Delivered' = Delivered
             /\ Len(EventsOf("onComplete")') + Len(EventsOf("onError")') = 1]_vars

\* the stream failed after its first token: onError without onComplete
C27_Witness ==
    /\ genPc = "done"
    /\ Len(EventsOf("onToken")) = 1
    /\ Len(EventsOf("onError")) = 1
    /\ Len(EventsOf("onComplete")) = 0

\* the stream ended after all its tokens
C27_WitnessComplete ==
    /\ genPc = "done"
    /\ Len(EventsOf("onToken")) = MaxChunks
    /\ Len(EventsOf("onComplete")) = 1


\* the run follows the multi-step route: the engine executes a plan
ComplexRun == Analyzed /\ Truthy(analysis.needsMultiStep)

\* the notifications of the run from its first step on: the per-step events,
\* the mock notice, the sources, the tokens and the terminal notification
FromFirstStep ==
    SelectSeq(events, LAMBDA e :
        \/ e.type \in Reported \ {"onProgress"}
        \/ e.type = "onProgress" /\ "step" \in DOMAIN e)

\* the number of steps reported complete
StepsDone == Len(EventsOf("onStepComplete"))

\* the notifications after the last complete step
AfterSteps == SubSeq(FromFirstStep, 4 * StepsDone + 1, Len(FromFirstStep))

\* the notifications of the generation call
OfGeneration == {"onToken", "onComplete", "onError"}

\* C29: in a run of agentSearch on the multi-step route the notifications
\* come in one order: for each step k = 1..N in turn onProgress, onToolCall,
\* onStepResults and onStepComplete of step k; then onMockSearchDetected, only
\* if a response was flagged; then exactly one onSourcesUpdate carrying
\* allResults; then the notifications of the generation call, so that no
\* onToken precedes onSourcesUpdate; and generation is started at most once.
C29_EventsTotallyOrdered ==
    /\ [](ComplexRun =>
            LET S == FromFirstStep
                R == AfterSteps
                m == IF Len(R) > 0 /\ R[1].type = "onMockSearchDetected" THEN 1 ELSE 0
            IN  /\ StepsDone <= Len(tasks)
                /\ Len(S) >= 4 * StepsDone
                /\ \A k \in 1..StepsDone :
                       /\ S[4 * k - 3].type = "onProgress"
                       /\ S[4 * k - 2].type = "onToolCall"
                       /\ S[4 * k - 1].type = "onStepResults"
                       /\ S[4 * k].type = "onStepComplete"
                       /\ \A j \in (4 * k - 3)..(4 * k) : S[j].step = k
                       /\ S[4 * k - 3].total = Len(tasks)
                /\ Len(R) > 0 =>
                       \/ R = << [type |-> "onError"] >>
                       \/ /\ StepsDone = Len(tasks)
                          /\ m = 1 => mockSeen = "true"
                          /\ m = 1 <=> Truthy(mhResult.hasMockSearch)
                          /\ Len(R) >= m + 1
                          /\ R[m + 1] = [type |-> "onSourcesUpdate",
                                         sources |-> allResults]
                          /\ \A j \in (m + 2)..Len(R) : R[j].type \in OfGeneration
                /\ genPc # "none" => Len(EventsOf("onSourcesUpdate")) = 1)
    /\ [][/\ genPc' = "start" => genPc \in {"none", "start"}
          /\ genPc = "done" => genPc' = "done"]_vars

\* a run of two steps with a flagged response that ends in onComplete
C29_Witness ==
    /\ ComplexRun
    /\ agPc = "done"
    /\ StepsDone = 2
    /\ Len(EventsOf("onMockSearchDetected")) = 1
    /\ Len(EventsOf("onToken")) >= 1
    /\ Len(EventsOf("onComplete")) = 1


\* C28: in agent mode, when generation completes for a query, the quality
\* check is run against the list onSourcesUpdate delivered during the run of
\* that query: a body is posted exactly when that list has entries, and the
\* body carries that list.
C28_QualityCheckOnRunSources ==
    /\ apPc = "checking" =>
           /\ apPosts[Len(apPosts)].run = apRun
           /\ apPosts[Len(apPosts)].sources = apDelivered
    /\ (apPc = "suggesting" /\ Len(apDelivered) > 0) =>
           /\ Len(apPosts) > 0
           /\ apPosts[Len(apPosts)].run = apRun
           /\ apPosts[Len(apPosts)].sources = apDelivered


\* the last n events logged, in logging order
LastLogged(n) == [k \in 1..n |-> LoggedEvent(lgLogged - n + k)]

\* C30: after any sequence of log calls the logger holds at most maxEvents
\* events, and they are the most recently logged ones in logging order;
\* nothing a caller does to an array returned by getEvents changes the list.
C30_LastThousandInOrder ==
    /\ Len(lgEvents) <= maxEvents
    /\ lgEvents = LastLogged(Min(lgLogged, maxEvents))

\* more than maxEvents events were logged and a caller has emptied the array
\* getEvents() gave it
C30_Witness ==
    /\ lgLogged > maxEvents + 1
    /\ lgPc = "mutated"
    /\ lgView.items = <<>>
    /\ Len(lgEvents) = maxEvents
    /\ lgEvents[1].seq = lgLogged - maxEvents + 1


\* the providers performSearch has to try, in order, given the keys
ProvidersInOrder ==
    (IF psKeys.brave THEN <<"brave">> ELSE <<>>)
        \o (IF psKeys.serp THEN <<"serp">> ELSE <<>>) \o <<"mock">>

\* the call has settled
PsSettled == psPc \in {"returned", "rejected"}

\* C21: performSearch never fails: it tries Brave when its key is configured,
\* then SerpAPI when its key is configured and Brave was unavailable or
\* failed, and otherwise the mock provider; it returns the response of the
\* first provider that succeeds, with isMockSearch true exactly when the mock
\* provider produced it and with the query field equal to the caller's query.
C21_PerformSearchNeverFails ==
    /\ psPc # "rejected"
    /\ psPc # "none" =>
           /\ Len(psTried) <= Len(ProvidersInOrder)
           /\ psTried = SubSeq(ProvidersInOrder, 1, Len(psTried))
    /\ psPc = "returned" =>
           /\ psOut.engine =
                  (IF psTried[Len(psTried)] = "serp" THEN "serpapi"
                   ELSE psTried[Len(psTried)])
           /\ psOut.isMockSearch = "true" <=> psOut.engine = "mock"
           /\ psOut.query = psQuery

\* the same without the first conjunct: what holds of the calls that return
PsReturnedRight ==
    /\ psPc # "none" =>
           /\ Len(psTried) <= Len(ProvidersInOrder)
           /\ psTried = SubSeq(ProvidersInOrder, 1, Len(psTried))
    /\ psPc = "returned" =>
           /\ psOut.engine =
                  (IF psTried[Len(psTried)] = "serp" THEN "serpapi"
                   ELSE psTried[Len(psTried)])
           /\ psOut.isMockSearch = "true" <=> psOut.engine = "mock"
           /\ psOut.query = psQuery

====
